---- MODULE Spec2Model ----
(***************************************************************************)
(* Verification model of BitEngine-Rust: the supervision core of a        *)
(* bitcoind / electrs node manager (src/src/process_manager.rs, ui.rs,    *)
(* rpc.rs, updater.rs).                                                    *)
(*                                                                         *)
(* The module holds several specifications over disjoint groups of        *)
(* variables:                                                              *)
(*   SpecQueue     one OutputQueue, its three producers and the drain     *)
(*   SpecShutdown  the node-shutdown worker thread, with a clock          *)
(*   FairShutdown  SpecShutdown plus the scheduler's fairness             *)
(*   Spec          the host state machine App::update, untimed            *)
(* A specification leaves the other groups at their initial values.       *)
(***************************************************************************)
EXTENDS Integers, Sequences, FiniteSets, TLC

\* ------------------------------------------------------------------------
\* Bounds of the model
\* ------------------------------------------------------------------------

\* Queue capacity used by the model; the program's threshold is 10_000
\* (process_manager.rs:36, ui.rs:1069), scaled so that TLC can fill it.
CAP == 3

\* Length the display buffers are trimmed to; the program's MAX is 5_000
\* (ui.rs:228), scaled.
MAX == 2

\* Lines each producer of SpecQueue pushes before its stream closes.
MaxPush == 2

\* ------------------------------------------------------------------------
\* State
\* ------------------------------------------------------------------------

\* SpecQueue
VARIABLES
    q_queue,      \* the OutputQueue (VecDeque<String> behind the mutex)
    q_lines,      \* the display buffer the drain appends to
    q_next,       \* per producer: how many lines it has pushed so far
    q_hist,       \* history: the lines pushed since the last drain, in order
    q_delivered,  \* history: every line a drain has handed to the consumer
    q_dropped     \* history: every line a push discarded at the threshold

qvars == <<q_queue, q_lines, q_next, q_hist, q_delivered, q_dropped>>

\* SpecShutdown
VARIABLES
    s_now,        \* the clock
    s_pc,         \* where the worker thread is
    s_rpc,        \* outcome of the stop request ("pending" before it)
    s_child,      \* the node process: alive / zombie / reaped
    s_mode,       \* "obeys": the node may exit; "ignores": only a kill ends it
    s_window,     \* deadline of the worker's 60 s loop (-1: not set)
    s_deadline,   \* deadline of terminate's 10 s loop (-1: not set)
    s_queue,      \* bitcoin_queue
    s_t0,         \* history: when terminate was invoked (-1: not yet)
    s_termAt,     \* history: when SIGTERM was sent (-1: never)
    s_killAt,     \* history: when the forced kill was sent (-1: never)
    s_killRes,    \* history: result of child.kill(): none / ok / failed
    s_via,        \* history: why terminate was invoked: none/fallback/timeout
    s_seen,       \* history: which poll observed the exit: none/window/term
    s_exitAt      \* history: "none", or "window" / "late" / "other" for an
                  \* exit inside / after the 60 s window / on another path

svars == <<s_now, s_pc, s_rpc, s_child, s_mode, s_window, s_deadline,
           s_queue, s_t0,
           s_termAt, s_killAt, s_killRes, s_via, s_seen, s_exitAt>>

\* Spec
VARIABLES
    bitcoin_handle,   \* Option<ProcessHandle>: 0 is None, else the pid
    electrs_handle,
    bitcoin_queue,    \* OutputQueue of the node
    electrs_queue,    \* OutputQueue of the indexer
    bitcoin_lines,    \* display buffers
    electrs_lines,
    bitcoin_running,
    bitcoin_synced,
    electrs_running,
    electrs_synced,
    block_height,
    overlay_message,  \* "None", or which message the overlay shows
    bitcoin_conf,     \* <dataDir>/bitcoin.conf: absent / user / generated
    procs,            \* the children spawned so far; the pid is the index
    budget,           \* user commands left
    rpc_inflight,     \* getblockchaininfo tasks whose result is pending
    last,             \* history: the user command update() handled last
    launched,         \* history: how the last Launch message ended: "None",
                      \* "Refused" by a guard, or the result of launch_*
    signals           \* history: <<pid, "SIGTERM", child state when sent>>
                      \* for every libc::kill(pid, SIGTERM)

hvars == <<bitcoin_handle, electrs_handle, bitcoin_queue, electrs_queue,
           bitcoin_lines, electrs_lines, bitcoin_running, bitcoin_synced,
           electrs_running, electrs_synced, block_height, overlay_message,
           bitcoin_conf, procs, budget, rpc_inflight, last, launched,
           signals>>

\* SpecLaunch
VARIABLES
    l_in,         \* the call: which daemon, the configured paths, what the
                  \* file system and the OS will answer
    l_pc,         \* where launch_* is: check / mkdir / push / spawn, then
                  \* "running" (Ok) or "failed" (Err)
    l_queue,      \* the daemon's OutputQueue
    l_lines,      \* the display buffer
    l_out,        \* per reader: lines the child's stream still carries
    l_spawned,    \* whether spawn was called, with which program and
                  \* arguments
    l_log         \* history: every line pushed since the call, in order

lvars == <<l_in, l_pc, l_queue, l_lines, l_out, l_spawned, l_log>>

\* State of the node's RPC polling, followed on its own (SpecRpc).
VARIABLES
    r_bitcoin_running,  \* App.bitcoin_running
    r_block_height,     \* App.block_height
    r_bitcoin_synced,   \* App.bitcoin_synced
    r_inflight,         \* getblockchaininfo tasks started and not yet answered
    r_pc,               \* "received" right after BlockchainInfoReceived
    r_result,           \* the result that handler was given
    r_before,           \* block_height and bitcoin_synced before it ran
    r_overlay_message,  \* App.overlay_message
    r_bitcoin_queue     \* what these handlers pushed to App.bitcoin_queue
                        \* since the last drain

rvars == <<r_bitcoin_running, r_block_height, r_bitcoin_synced, r_inflight,
           r_pc, r_result, r_before, r_overlay_message, r_bitcoin_queue>>

\* State of the binary update (SpecUpdate, SpecOverlap).
VARIABLES
    u_tree,     \* the download tree and BitForge.app, as the runs find them
    u_dstdir,   \* whether the Binaries directory exists
    u_dst,      \* the file at each final path of the Binaries directory
    u_tmp,      \* the file at each `.{name}.tmp` path
    u_run,      \* per update task: position, locals and result
    u_fail,     \* outside failures of filesystem calls still to come
    u_queue,    \* the node's OutputQueue, as far as updates push to it
    u_overlay   \* App.overlay_message and App.bitforge_path

uvars == <<u_tree, u_dstdir, u_dst, u_tmp, u_run, u_fail, u_queue, u_overlay>>

\* State of one find_latest_version call (SpecVersion).
VARIABLES
    v_dir,      \* the entries of search_dir, in read_dir's order
    v_readable, \* whether read_dir succeeds
    v_prefix,   \* the prefix argument
    v_pc,       \* "call", "loop" or "done"
    v_i,        \* the entry the loop is at
    v_best,     \* Option<((u64, u64, u64), String)>
    v_parsed,   \* the last parse_semver call: its argument and result
    v_ret       \* the returned folder name, "None" for None

vvars == <<v_dir, v_readable, v_prefix, v_pc, v_i, v_best, v_parsed, v_ret>>

\* State of one RpcAuth::from_data_dir call (SpecAuth).
VARIABLES
    a_files,    \* the data directory: .cookie, mainnet/.cookie, bitcoin.conf
    a_pc,       \* "port", "cookie", "static" or "done"
    a_port,     \* the local `port`
    a_k,        \* the cookie path the loop is at
    a_src,      \* the source the credentials were taken from
    a_auth      \* the returned RpcAuth

avars == <<a_files, a_pc, a_port, a_k, a_src, a_auth>>

\* State of one rpc::get_blockchain_info / rpc::stop_bitcoind call (SpecCall).
VARIABLES
    c_method,   \* "getblockchaininfo" or "stop"
    c_http,     \* what the HTTP exchange produces
    c_pc,       \* "call", "called" or "done"
    c_out,      \* what rpc::call returns
    c_info      \* what get_blockchain_info / stop_bitcoind returns

cvars == <<c_method, c_http, c_pc, c_out, c_info>>

\* State of the two reader threads of one child (SpecReader).
VARIABLES
    d_stream,   \* per reader: what its pipe delivers, read by read
    d_pos,      \* per reader: reads done so far
    d_open,     \* whether the child still holds the write ends
    d_pc,       \* per reader: "reading" or "ended"
    d_queue,    \* the shared OutputQueue
    d_log       \* history: every line pushed, as <<reader, n>>

dvars == <<d_stream, d_pos, d_open, d_pc, d_queue, d_log>>

\* State of repeated rpc::ensure_bitcoin_conf calls (SpecConf).
VARIABLES
    e_conf,     \* <dataDir>/bitcoin.conf
    e_fs,       \* per call: what the file system will answer
    e_hist,     \* bitcoin.conf at entry and after each call so far
    e_ret       \* the result of each call so far

evars == <<e_conf, e_fs, e_hist, e_ret>>

vars == <<qvars, svars, hvars, lvars, rvars, uvars, vvars, avars, cvars, dvars, evars>>

\* What each specification leaves alone.
notQ == <<svars, hvars, lvars, rvars, uvars, vvars, avars, cvars, dvars, evars>>

notS == <<qvars, hvars, lvars, rvars, uvars, vvars, avars, cvars, dvars, evars>>

notH == <<qvars, svars, lvars, rvars, uvars, vvars, avars, cvars, dvars, evars>>

notL == <<qvars, svars, hvars, rvars, uvars, vvars, avars, cvars, dvars, evars>>

notR == <<qvars, svars, hvars, lvars, uvars, vvars, avars, cvars, dvars, evars>>

notU == <<qvars, svars, hvars, lvars, rvars, vvars, avars, cvars, dvars, evars>>

notV == <<qvars, svars, hvars, lvars, rvars, uvars, avars, cvars, dvars, evars>>

notA == <<qvars, svars, hvars, lvars, rvars, uvars, vvars, cvars, dvars, evars>>

notC == <<qvars, svars, hvars, lvars, rvars, uvars, vvars, avars, dvars, evars>>

notD == <<qvars, svars, hvars, lvars, rvars, uvars, vvars, avars, cvars, evars>>

notE == <<qvars, svars, hvars, lvars, rvars, uvars, vvars, avars, cvars, dvars>>

\* ------------------------------------------------------------------------
\* Sequence helpers
\* ------------------------------------------------------------------------

Range(s) == {s[i] : i \in 1..Len(s)}

LastN(s, n) == IF Len(s) > n THEN SubSeq(s, Len(s) - n + 1, Len(s)) ELSE s

\* ------------------------------------------------------------------------
\* OutputQueue (process_manager.rs, ui.rs)
\* ------------------------------------------------------------------------

\* new_queue(): an empty VecDeque.
new_queue == <<>>

\* push_line: under the lock, pop the front when len > threshold, then push.
push_line(q, line) ==
    IF Len(q) > CAP THEN Append(Tail(q), line) ELSE Append(q, line)

\* push_msg: the host's copy of push_line (same threshold, same order).
push_msg(q, msg) ==
    IF Len(q) > CAP THEN Append(Tail(q), msg) ELSE Append(q, msg)

\* mutant: the drain leaves the newest queued line behind
drain_taken_butlast(q) == IF q = <<>> THEN q ELSE SubSeq(q, 1, Len(q) - 1)

\* OutputTick, `while let Some(line) = q.pop_front()` under one lock hold:
\* the lines taken, in pop order ...
drain_taken(q) == q

\* ... and what stays queued once the loop ends.
drain_left(q) == SubSeq(q, Len(drain_taken(q)) + 1, Len(q))

\* OutputTick, "Trim terminal buffers to last 5 000 lines".
trim_lines(buf) == LastN(buf, MAX)

\* ------------------------------------------------------------------------
\* SpecQueue: one OutputQueue shared by the stdout reader, the stderr
\* reader and the host (producers) and by the host's OutputTick (consumer)
\* ------------------------------------------------------------------------


Readers == {"stdout", "stderr"}

Producers == Readers \cup {"host"}

\* A line is <<producer, n>>: the n-th line that producer pushed.
InitQ ==
    /\ q_queue = new_queue
    /\ q_lines = <<>>
    /\ q_next = [p \in Producers |-> 0]
    /\ q_hist = <<>>
    /\ q_delivered = <<>>
    /\ q_dropped = {}

\* spawn_reader_thread: one iteration of a reader's `for line in lines()`
\* loop with Ok(l); the loop ends when the stream has no further line.
ReaderPush(r) ==
    /\ q_next[r] < MaxPush
    /\ LET line == <<r, q_next[r] + 1>> IN
        /\ q_queue' = push_line(q_queue, line)
        /\ q_dropped' = q_dropped \cup (Range(q_queue) \ Range(q_queue'))
        /\ q_hist' = Append(q_hist, line)
    /\ q_next' = [q_next EXCEPT ![r] = @ + 1]
    /\ UNCHANGED <<q_lines, q_delivered>>
    /\ UNCHANGED notQ

\* A host-side push_msg on the same queue (diagnostic lines).
HostPush ==
    /\ q_next["host"] < MaxPush
    /\ LET line == <<"host", q_next["host"] + 1>> IN
        /\ q_queue' = push_msg(q_queue, line)
        /\ q_dropped' = q_dropped \cup (Range(q_queue) \ Range(q_queue'))
        /\ q_hist' = Append(q_hist, line)
    /\ q_next' = [q_next EXCEPT !["host"] = @ + 1]
    /\ UNCHANGED <<q_lines, q_delivered>>
    /\ UNCHANGED notQ

\* Message::OutputTick on this queue: drain under the lock, then trim.
QueueTick ==
    /\ q_lines' = trim_lines(q_lines \o drain_taken(q_queue))
    /\ q_delivered' = q_delivered \o drain_taken(q_queue)
    /\ q_queue' = drain_left(q_queue)
    /\ q_hist' = <<>>
    /\ UNCHANGED <<q_next, q_dropped>>
    /\ UNCHANGED notQ

QueueStep ==
    \/ \E r \in Readers : ReaderPush(r)
    \/ HostPush
    \/ QueueTick

\* ------------------------------------------------------------------------
\* Child processes and ProcessHandle (process_manager.rs)
\* ------------------------------------------------------------------------

\* A child is "alive", a "zombie" (exited, not yet reaped) or "reaped".
Exited(st) == st \in {"zombie", "reaped"}

\* Child::try_wait: Ok(Some(status)) once the child has exited, reaping it
\* (the status is cached in the handle afterwards); Ok(None) while it runs.
try_wait(st) ==
    [exited |-> Exited(st), st |-> IF Exited(st) THEN "reaped" ELSE st]

\* mutant: the handle reports every child as no longer running
is_running_never(st) == FALSE

\* ProcessHandle::is_running: matches!(try_wait(), Ok(None)).
is_running(st) == ~try_wait(st).exited

\* mutant: terminate escalates without waiting for the deadline
term_after_check_eager(expired) == "t_kill"

\* ProcessHandle::terminate, loop head: `if Instant::now() >= deadline break`.
term_after_check(expired) == IF expired THEN "t_kill" ELSE "t_poll"

\* mutant: terminate returns from its first poll whatever try_wait says
term_after_poll_eager(exited) == "t_ret"

\* ProcessHandle::terminate, loop body: Ok(Some(_)) => return, _ => sleep.
term_after_poll(exited) == IF exited THEN "t_ret" ELSE "t_sleep"

\* mutant: the worker calls terminate without waiting for its deadline
wait_after_check_eager(expired) == "t_term"

\* ShutdownBoth worker, 60 s loop head: `if now >= deadline { terminate }`.
wait_after_check(expired) == IF expired THEN "t_term" ELSE "w_poll"

\* ------------------------------------------------------------------------
\* RPC call outcome (rpc.rs)
\* ------------------------------------------------------------------------

\* What the HTTP exchange of one call produces: whether the request got a
\* response at all, the status, whether the body parses as RpcResponse,
\* and whether its error / result fields are non-null.
RpcResponses ==
    [sent : BOOLEAN, status : {200, 401, 500}, parses : BOOLEAN,
     error : BOOLEAN, result : BOOLEAN]

\* mutant: the result is looked at before the error
call_result_first(resp) ==
    IF ~resp.sent THEN "TransportError"
    ELSE IF resp.status = 401 THEN "AuthenticationFailed"
    ELSE IF ~resp.parses THEN "ParseError"
    ELSE IF resp.result THEN "Ok"
    ELSE IF resp.error THEN "RpcError"
    ELSE "EmptyResult"

\* rpc::call: the first failing check decides the outcome.
call(resp) ==
    IF ~resp.sent THEN "TransportError"
    ELSE IF resp.status = 401 THEN "AuthenticationFailed"
    ELSE IF ~resp.parses THEN "ParseError"
    ELSE IF resp.error THEN "RpcError"
    ELSE IF ~resp.result THEN "EmptyResult"
    ELSE "Ok"

\* rpc::stop_bitcoind: call(...)?; Ok(()) -- the result value is discarded.
stop_bitcoind(resp) == call(resp)

\* mutant: only a transport failure counts as "not stopped via RPC"
stopped_via_rpc_transport_only(rt_ok, resp) ==
    rt_ok /\ stop_bitcoind(resp) # "TransportError"

\* ShutdownBoth worker: block_on(stop_bitcoind(&auth)).is_ok(), or false
\* when no runtime could be obtained (unwrap_or(false)).
stopped_via_rpc(rt_ok, resp) == rt_ok /\ stop_bitcoind(resp) = "Ok"

\* verification_progress is counted in units of 0.00001; the literal 0.9999
\* of the sync test is then
ProgressThreshold == 99990

\* Largest headers / blocks count a snapshot of the model carries.
MaxHeaders == 2

\* BlockchainInfo as get_blockchain_info returns it (the three fields the
\* host reads).
Snapshots ==
    [blocks : 0..MaxHeaders, headers : 0..MaxHeaders,
     verification_progress :
        {0, ProgressThreshold, ProgressThreshold + 1, 100000}]

\* u64::saturating_sub.
saturating_sub(a, b) == IF a >= b THEN a - b ELSE 0

\* mutant: the node must have every header's block
node_synced_strict(info) ==
    /\ info.headers > 0
    /\ info.blocks >= info.headers
    /\ info.verification_progress > ProgressThreshold

\* BlockchainInfoReceived: the value assigned to bitcoin_synced.
node_synced(info) ==
    /\ info.headers > 0
    /\ info.blocks >= saturating_sub(info.headers, 1)
    /\ info.verification_progress > ProgressThreshold

\* ------------------------------------------------------------------------
\* SpecShutdown: the worker thread ShutdownBoth spawns for the node, with a
\* clock.  Time is counted in units of 100 ms.
\* ------------------------------------------------------------------------

\* Duration::from_secs(10) in terminate.
TermDeadline == 100

\* Duration::from_millis(200) in terminate.
TermPoll == 2

\* Duration::from_secs(60) in the ShutdownBoth worker.
StopDeadline == 600

\* Duration::from_millis(500) in the ShutdownBoth worker.
StopPoll == 5

\* thread::sleep returns after at least the requested time; the model lets
\* each sleep overrun by up to MaxJitter units.
MaxJitter == 1


InitS ==
    /\ s_now = 0
    /\ s_pc = "rpc"
    /\ s_rpc = "pending"
    /\ s_child = "alive"
    /\ s_mode \in {"obeys", "ignores"}
    /\ s_window = -1
    /\ s_deadline = -1
    /\ s_queue = <<"Sending stop via RPC...">>
    /\ s_t0 = -1
    /\ s_termAt = -1
    /\ s_killAt = -1
    /\ s_killRes = "none"
    /\ s_via = "none"
    /\ s_seen = "none"
    /\ s_exitAt = "none"

\* Worker: `let stopped_via_rpc = ...; if !stopped_via_rpc { terminate }
\* else { deadline = now + 60 s; loop ... }`.
S_Rpc ==
    /\ s_pc = "rpc"
    /\ \E rt_ok \in BOOLEAN, resp \in RpcResponses :
        /\ s_rpc' = IF rt_ok THEN stop_bitcoind(resp) ELSE "NoRuntime"
        /\ IF stopped_via_rpc(rt_ok, resp)
              THEN /\ s_pc' = "w_check"
                   /\ s_window' = s_now + StopDeadline
                   /\ s_via' = s_via
              ELSE /\ s_pc' = "t_term"
                   /\ s_window' = s_window
                   /\ s_via' = "fallback"
    /\ UNCHANGED <<s_deadline, s_now, s_child, s_mode, s_queue, s_t0, s_termAt,
                   s_killAt, s_killRes, s_seen, s_exitAt>>
    /\ UNCHANGED notS

\* Worker loop head: `if Instant::now() >= deadline { handle.terminate();
\* break; }`.
S_WaitCheck ==
    /\ s_pc = "w_check"
    /\ s_pc' = wait_after_check(s_now >= s_window)
    /\ s_via' = IF s_pc' = "t_term" THEN "timeout" ELSE s_via
    /\ UNCHANGED <<s_now, s_rpc, s_child, s_mode, s_deadline, s_queue, s_t0,
                   s_termAt, s_killAt, s_killRes, s_seen, s_exitAt>>
    /\ UNCHANGED <<notS, s_window>>

\* Worker loop: `if !handle.is_running() { break; }`.
S_WaitPoll ==
    /\ s_pc = "w_poll"
    /\ s_child' = try_wait(s_child).st
    /\ IF is_running(s_child)
          THEN s_pc' = "w_sleep" /\ s_seen' = s_seen
          ELSE s_pc' = "push" /\ s_seen' = "window"
    /\ UNCHANGED <<s_now, s_rpc, s_mode, s_deadline, s_queue, s_t0,
                   s_termAt, s_killAt, s_killRes, s_via, s_exitAt>>
    /\ UNCHANGED <<notS, s_window>>

\* Worker loop: `thread::sleep(500 ms)`.
S_WaitSleep ==
    /\ s_pc = "w_sleep"
    /\ \E j \in 0..MaxJitter : s_now' = s_now + StopPoll + j
    /\ s_pc' = "w_check"
    /\ UNCHANGED <<s_rpc, s_child, s_mode, s_deadline, s_queue, s_t0,
                   s_termAt, s_killAt, s_killRes, s_via, s_seen, s_exitAt>>
    /\ UNCHANGED <<notS, s_window>>

\* terminate: `libc::kill(pid, SIGTERM); deadline = now + 10 s`.
S_TermSignal ==
    /\ s_pc = "t_term"
    /\ s_t0' = s_now
    /\ s_termAt' = s_now
    /\ s_deadline' = s_now + TermDeadline
    /\ s_pc' = "t_check"
    /\ UNCHANGED <<s_now, s_rpc, s_child, s_mode, s_queue, s_killAt,
                   s_killRes, s_via, s_seen, s_exitAt>>
    /\ UNCHANGED <<notS, s_window>>

\* terminate, loop head.
S_TermCheck ==
    /\ s_pc = "t_check"
    /\ s_pc' = term_after_check(s_now >= s_deadline)
    /\ UNCHANGED <<s_now, s_rpc, s_child, s_mode, s_deadline, s_queue, s_t0,
                   s_termAt, s_killAt, s_killRes, s_via, s_seen, s_exitAt>>
    /\ UNCHANGED <<notS, s_window>>

\* terminate, loop body: try_wait.
S_TermPoll ==
    /\ s_pc = "t_poll"
    /\ s_child' = try_wait(s_child).st
    /\ s_pc' = term_after_poll(try_wait(s_child).exited)
    /\ s_seen' = IF s_pc' = "t_ret" THEN "term" ELSE s_seen
    /\ UNCHANGED <<s_now, s_rpc, s_mode, s_deadline, s_queue, s_t0,
                   s_termAt, s_killAt, s_killRes, s_via, s_exitAt>>
    /\ UNCHANGED <<notS, s_window>>

\* terminate: `thread::sleep(200 ms)`.
S_TermSleep ==
    /\ s_pc = "t_sleep"
    /\ \E j \in 0..MaxJitter : s_now' = s_now + TermPoll + j
    /\ s_pc' = "t_check"
    /\ UNCHANGED <<s_rpc, s_child, s_mode, s_deadline, s_queue, s_t0,
                   s_termAt, s_killAt, s_killRes, s_via, s_seen, s_exitAt>>
    /\ UNCHANGED <<notS, s_window>>

\* terminate: `let _ = self.child.kill()`.  On a child that has exited the
\* call changes nothing; on a live child it either ends it or fails (the
\* result is discarded either way).
S_TermKill ==
    /\ s_pc = "t_kill"
    /\ s_killAt' = s_now
    /\ \/ /\ s_killRes' = "ok"
          /\ s_child' = IF s_child = "alive" THEN "zombie" ELSE s_child
          /\ s_exitAt' = IF s_child = "alive" THEN "other" ELSE s_exitAt
       \/ /\ s_child = "alive"
          /\ s_killRes' = "failed"
          /\ UNCHANGED <<s_child, s_exitAt>>
    /\ s_pc' = "t_wait"
    /\ UNCHANGED <<s_now, s_rpc, s_mode, s_deadline, s_queue, s_t0,
                   s_termAt, s_via, s_seen>>
    /\ UNCHANGED <<notS, s_window>>

\* terminate: `let _ = self.child.wait()` blocks until the child has exited.
S_TermWait ==
    /\ s_pc = "t_wait"
    /\ Exited(s_child)
    /\ s_child' = "reaped"
    /\ s_pc' = "t_ret"
    /\ UNCHANGED <<s_now, s_rpc, s_mode, s_deadline, s_queue, s_t0,
                   s_termAt, s_killAt, s_killRes, s_via, s_seen, s_exitAt>>
    /\ UNCHANGED <<notS, s_window>>

\* terminate has returned; the worker goes on to its last statement.
S_TermReturn ==
    /\ s_pc = "t_ret"
    /\ s_pc' = "push"
    /\ UNCHANGED <<s_now, s_rpc, s_child, s_mode, s_deadline, s_queue, s_t0,
                   s_termAt, s_killAt, s_killRes, s_via, s_seen, s_exitAt>>
    /\ UNCHANGED <<notS, s_window>>

\* Worker: `push_msg(&btc_q, "bitcoind stopped.")`, then the thread ends.
S_Push ==
    /\ s_pc = "push"
    /\ s_queue' = push_msg(s_queue, "bitcoind stopped.")
    /\ s_pc' = "done"
    /\ UNCHANGED <<s_now, s_rpc, s_child, s_mode, s_deadline, s_t0,
                   s_termAt, s_killAt, s_killRes, s_via, s_seen, s_exitAt>>
    /\ UNCHANGED <<notS, s_window>>

\* The node process exits (on a stop request, or on its own).
S_ChildExit ==
    /\ s_child = "alive"
    /\ s_mode = "obeys"
    /\ s_child' = "zombie"
    /\ s_exitAt' =
         IF s_pc \in {"w_check", "w_poll", "w_sleep"}
            THEN (IF s_now < s_window THEN "window" ELSE "late")
            ELSE "other"
    /\ UNCHANGED <<s_now, s_pc, s_rpc, s_mode, s_deadline, s_queue, s_t0,
                   s_termAt, s_killAt, s_killRes, s_via, s_seen>>
    /\ UNCHANGED <<notS, s_window>>

S_Worker ==
    \/ S_Rpc
    \/ S_WaitCheck
    \/ S_WaitPoll
    \/ S_WaitSleep
    \/ S_TermSignal
    \/ S_TermCheck
    \/ S_TermPoll
    \/ S_TermSleep
    \/ S_TermKill
    \/ S_TermWait
    \/ S_TermReturn
    \/ S_Push

ShutdownStep ==
    \/ S_Worker
    \/ S_ChildExit

\* ------------------------------------------------------------------------
\* Spec: the host state machine (App::update) with its child processes,
\* reader threads and background termination threads, untimed
\* ------------------------------------------------------------------------

\* Child processes the host may spawn in one run of the model.
MaxProcs == 2

\* User commands (launch / shutdown messages) in one run of the model.
MaxCmds == 3

\* Lines a child writes, over its two output streams together.
LinesPerProc == 1

\* getblockchaininfo tasks in flight at once.
MaxPolls == 1



\* Texts a child's output line may carry.  For the indexer the first
\* matches a pattern of is_electrs_synced_line and the second none; the
\* node's lines are never inspected.
ChildTexts(kind) == IF kind = "els" THEN {"Electrs RUNNING", "log"} ELSE {"log"}

\* is_electrs_synced_line: lower-case the line, then look for a pattern.
to_ascii_lowercase(text) ==
    IF text = "Electrs RUNNING" THEN "electrs running" ELSE text

is_electrs_synced_line(line) ==
    to_ascii_lowercase(line) \in
        {"finished full compaction", "electrs running",
         "waiting for new block", "index update completed",
         "chain best block"}

\* push_msg applied to each message of a sequence in turn.
RECURSIVE push_all(_, _)
push_all(q, msgs) ==
    IF msgs = <<>> THEN q ELSE push_all(push_msg(q, Head(msgs)), Tail(msgs))

\* App::new: the queues receive the start-up banner, everything else is
\* empty / false / None.
InitH ==
    /\ bitcoin_handle = 0
    /\ electrs_handle = 0
    /\ bitcoin_queue =
         push_all(new_queue, <<"=== Bitcoin Node Manager started ===",
                               "Config", "Binaries",
                               "Data dir">>)
    /\ electrs_queue =
         push_all(new_queue, <<"=== Electrs Node Manager started ===",
                               "Binaries", "DB dir">>)
    /\ bitcoin_lines = <<>>
    /\ electrs_lines = <<>>
    /\ bitcoin_running = FALSE
    /\ bitcoin_synced = FALSE
    /\ electrs_running = FALSE
    /\ electrs_synced = FALSE
    /\ block_height = 0
    /\ overlay_message = "None"
    /\ bitcoin_conf = "absent"
    /\ procs = <<>>
    /\ budget = MaxCmds
    /\ rpc_inflight = 0
    /\ last = "None"
    /\ launched = "None"
    /\ signals = {}

\* ---- child processes and their reader threads ----

\* A spawned child: its kind, OS state, the lines its two streams still
\* carry, and the thread that owns its handle once a shutdown moved it
\* there (pc "host": the handle is still the host's; sd: the command that
\* spawned the thread).
NewProc(kind, out) ==
    [kind |-> kind, st |-> "alive", out |-> out, pc |-> "host", sd |-> 0]

\* How a child's output may be spread over stdout and stderr.
ChildOutputs ==
    {o \in [Readers -> 0..LinesPerProc] :
        o["stdout"] + o["stderr"] = LinesPerProc}

Pids == 1..Len(procs)

Alive(kind) == {p \in Pids : procs[p].kind = kind /\ procs[p].st = "alive"}

\* The queue a child's readers were given (Arc::clone of the host's).
QueueOf(kind) == IF kind = "btc" THEN bitcoin_queue ELSE electrs_queue

\* A child exits on its own or on a request it received earlier.
ProcExit(p) ==
    /\ procs[p].st = "alive"
    /\ procs' = [procs EXCEPT ![p].st = "zombie"]
    /\ UNCHANGED <<bitcoin_handle, electrs_handle, bitcoin_queue,
                   electrs_queue, bitcoin_lines, electrs_lines,
                   bitcoin_running, bitcoin_synced, electrs_running,
                   electrs_synced, block_height, overlay_message, budget,
                   last, signals>>
    /\ UNCHANGED <<notH, bitcoin_conf, launched, rpc_inflight>>

\* spawn_reader_thread: one reader of child p reads a line and pushes it.
\* Output written before the exit stays readable from the pipe, so the
\* reader may push after the child is gone.
ReaderLine(p, r) ==
    /\ procs[p].out[r] > 0
    /\ \E text \in ChildTexts(procs[p].kind) :
        IF procs[p].kind = "btc"
           THEN /\ bitcoin_queue' = push_line(bitcoin_queue, text)
                /\ UNCHANGED electrs_queue
           ELSE /\ electrs_queue' = push_line(electrs_queue, text)
                /\ UNCHANGED bitcoin_queue
    /\ procs' = [procs EXCEPT ![p].out[r] = @ - 1]
    /\ UNCHANGED <<bitcoin_handle, electrs_handle, bitcoin_lines,
                   electrs_lines, bitcoin_running, bitcoin_synced,
                   electrs_running, electrs_synced, block_height,
                   overlay_message, budget, last, signals>>
    /\ UNCHANGED <<notH, bitcoin_conf, launched, rpc_inflight>>

\* ---- launching (process_manager.rs) ----

\* What the launch meets: whether the executable exists, whether
\* create_dir_all succeeds, whether Command::spawn succeeds.
LaunchEnvs == [exists : BOOLEAN, mkdir : BOOLEAN, spawn : BOOLEAN]

\* mutant: the launch does not look whether the executable exists
launch_result_unchecked(env) ==
    IF ~env.mkdir THEN "CreateDirFailed"
    ELSE IF ~env.spawn THEN "SpawnFailed"
    ELSE "Ok"

\* launch_bitcoind / launch_electrs: the first failing step decides.
launch_result(env) ==
    IF ~env.exists THEN "NotFound"
    ELSE IF ~env.mkdir THEN "CreateDirFailed"
    ELSE IF ~env.spawn THEN "SpawnFailed"
    ELSE "Ok"

\* The `$ <exe> <args>` line is pushed after the two checks, before spawn.
launch_pushes_cmd(env) == env.exists /\ env.mkdir

\* The queue after launch_* ran: the command line, when it got that far.
launch_queue(q, env, cmd) ==
    IF launch_pushes_cmd(env) THEN push_line(q, cmd) ELSE q

\* The OS refuses a spawn once the model's process table is full.
SpawnEnvs == {env \in LaunchEnvs : env.spawn => Len(procs) < MaxProcs}

\* rpc::ensure_bitcoin_conf: an existing file is left alone; otherwise the
\* default config is written, unless the directory or the file cannot be.
ensure_bitcoin_conf(conf, fs_ok) ==
    IF conf # "absent" THEN conf
    ELSE IF fs_ok THEN "generated"
    ELSE "absent"

\* ---- App::update ----

\* mutant: the exit check does not look at the running flag
tick_gone_any(running, handle) ==
    handle # 0 /\ ~is_running(procs[handle].st)

\* OutputTick, exit check: `if running { if let Some(h) = handle {
\* if !h.is_running() { ... } } }`.
tick_gone(running, handle) ==
    running /\ handle # 0 /\ ~is_running(procs[handle].st)

\* The children whose handle an exit check polls (try_wait reaps them).
tick_polled ==
    (IF bitcoin_running /\ bitcoin_handle # 0 THEN {bitcoin_handle} ELSE {})
    \cup
    (IF electrs_running /\ electrs_handle # 0 THEN {electrs_handle} ELSE {})

\* mutant: the flag follows the lines of the current tick only
tick_electrs_synced_forgetful(synced, by_line, btc_gone, els_gone) ==
    IF btc_gone \/ els_gone THEN FALSE ELSE by_line

\* OutputTick, electrs_synced: set by a matching line of the drain, then
\* cleared by either exit check that finds its process gone.
tick_electrs_synced(synced, by_line, btc_gone, els_gone) ==
    IF btc_gone \/ els_gone THEN FALSE ELSE (synced \/ by_line)

\* Message::OutputTick: drain both queues, trim both buffers, then the two
\* exit checks.
OutputTick ==
    LET btc_in == drain_taken(bitcoin_queue)
        els_in == drain_taken(electrs_queue)
        by_line == \E i \in 1..Len(els_in) : is_electrs_synced_line(els_in[i])
        btc_gone == tick_gone(bitcoin_running, bitcoin_handle)
        els_gone == tick_gone(electrs_running, electrs_handle)
    IN
    /\ bitcoin_lines' = trim_lines(bitcoin_lines \o btc_in)
    /\ electrs_lines' = trim_lines(electrs_lines \o els_in)
    /\ bitcoin_queue' =
         IF btc_gone
            THEN push_msg(drain_left(bitcoin_queue),
                          "bitcoind has stopped.")
            ELSE drain_left(bitcoin_queue)
    /\ electrs_queue' =
         IF els_gone
            THEN push_msg(drain_left(electrs_queue),
                          "electrs has stopped.")
            ELSE drain_left(electrs_queue)
    /\ bitcoin_running' = (bitcoin_running /\ ~btc_gone)
    /\ bitcoin_synced' = (bitcoin_synced /\ ~btc_gone)
    /\ block_height' = IF btc_gone THEN 0 ELSE block_height
    /\ electrs_running' = (electrs_running /\ ~els_gone)
    /\ electrs_synced' =
         tick_electrs_synced(electrs_synced, by_line, btc_gone, els_gone)
    /\ procs' = [p \in Pids |->
                   IF p \in tick_polled
                      THEN [procs[p] EXCEPT !.st = try_wait(@).st]
                      ELSE procs[p]]
    /\ UNCHANGED <<bitcoin_handle, electrs_handle, overlay_message, budget,
                   last, signals>>
    /\ UNCHANGED <<notH, bitcoin_conf, launched, rpc_inflight>>

\* Message::LaunchBitcoin.
LaunchBitcoin ==
    /\ budget > 0
    /\ budget' = budget - 1
    /\ last' = "LaunchBitcoin"
    /\ IF bitcoin_running
          THEN /\ overlay_message' = "Bitcoin is already running."
               /\ launched' = "Refused"
               /\ UNCHANGED <<bitcoin_handle, bitcoin_queue, bitcoin_running,
                              bitcoin_synced, procs, bitcoin_conf>>
          ELSE \E env \in SpawnEnvs, fs_ok \in BOOLEAN :
                LET q1 == launch_queue(bitcoin_queue, env, "$ bitcoind")
                IN
                /\ bitcoin_conf' = ensure_bitcoin_conf(bitcoin_conf, fs_ok)
                /\ launched' = launch_result(env)
                /\ IF launch_result(env) = "Ok"
                      THEN /\ \E out \in ChildOutputs :
                                procs' = Append(procs, NewProc("btc", out))
                           /\ bitcoin_handle' = Len(procs) + 1
                           /\ bitcoin_running' = TRUE
                           /\ bitcoin_synced' = FALSE
                           /\ bitcoin_queue' = q1
                           /\ UNCHANGED overlay_message
                      ELSE /\ bitcoin_queue' = push_msg(q1, "Launch error")
                           /\ overlay_message' = "Failed to launch Bitcoin"
                           /\ UNCHANGED <<bitcoin_handle, bitcoin_running,
                                          bitcoin_synced, procs>>
    /\ UNCHANGED <<electrs_handle, electrs_queue, bitcoin_lines,
                   electrs_lines, electrs_running, electrs_synced,
                   block_height, signals>>
    /\ UNCHANGED <<notH, rpc_inflight>>

\* mutant: the indexer launch does not look at the node's running flag
electrs_needs_bitcoin_skipped == FALSE

\* LaunchElectrs, second guard: `if !self.bitcoin_running`.
electrs_needs_bitcoin == ~bitcoin_running

\* mutant: the node test comes before the already-running test
LaunchElectrs_guards_swapped ==
    /\ budget > 0
    /\ budget' = budget - 1
    /\ last' = "LaunchElectrs"
    /\ IF electrs_needs_bitcoin \/ electrs_running
          THEN /\ overlay_message' =
                    IF electrs_needs_bitcoin
                       THEN "Bitcoin must be running before starting Electrs."
                       ELSE "Electrs is already running."
               /\ launched' = "Refused"
               /\ UNCHANGED <<electrs_handle, electrs_queue, electrs_running,
                              electrs_synced, procs>>
          ELSE \E env \in SpawnEnvs :
                LET q1 == launch_queue(electrs_queue, env, "$ electrs")
                IN
                /\ launched' = launch_result(env)
                /\ IF launch_result(env) = "Ok"
                   THEN /\ \E out \in ChildOutputs :
                             procs' = Append(procs, NewProc("els", out))
                        /\ electrs_handle' = Len(procs) + 1
                        /\ electrs_running' = TRUE
                        /\ electrs_synced' = FALSE
                        /\ electrs_queue' = q1
                        /\ UNCHANGED overlay_message
                   ELSE /\ electrs_queue' =
                             push_msg(q1, "Launch error")
                        /\ overlay_message' = "Failed to launch Electrs"
                        /\ UNCHANGED <<electrs_handle, electrs_running,
                                       electrs_synced, procs>>
    /\ UNCHANGED <<bitcoin_handle, bitcoin_queue, bitcoin_lines,
                   electrs_lines, bitcoin_running, bitcoin_synced,
                   block_height, signals>>
    /\ UNCHANGED <<notH, bitcoin_conf, rpc_inflight>>

\* Message::LaunchElectrs.
LaunchElectrs ==
    /\ budget > 0
    /\ budget' = budget - 1
    /\ last' = "LaunchElectrs"
    /\ IF electrs_running
          THEN /\ overlay_message' = "Electrs is already running."
               /\ launched' = "Refused"
               /\ UNCHANGED <<electrs_handle, electrs_queue, electrs_running,
                              electrs_synced, procs>>
          ELSE IF electrs_needs_bitcoin
          THEN /\ overlay_message' =
                    "Bitcoin must be running before starting Electrs."
               /\ launched' = "Refused"
               /\ UNCHANGED <<electrs_handle, electrs_queue, electrs_running,
                              electrs_synced, procs>>
          ELSE \E env \in SpawnEnvs :
                LET q1 == launch_queue(electrs_queue, env, "$ electrs")
                IN
                /\ launched' = launch_result(env)
                /\ IF launch_result(env) = "Ok"
                   THEN /\ \E out \in ChildOutputs :
                             procs' = Append(procs, NewProc("els", out))
                        /\ electrs_handle' = Len(procs) + 1
                        /\ electrs_running' = TRUE
                        /\ electrs_synced' = FALSE
                        /\ electrs_queue' = q1
                        /\ UNCHANGED overlay_message
                   ELSE /\ electrs_queue' =
                             push_msg(q1, "Launch error")
                        /\ overlay_message' = "Failed to launch Electrs"
                        /\ UNCHANGED <<electrs_handle, electrs_running,
                                       electrs_synced, procs>>
    /\ UNCHANGED <<bitcoin_handle, bitcoin_queue, bitcoin_lines,
                   electrs_lines, bitcoin_running, bitcoin_synced,
                   block_height, signals>>
    /\ UNCHANGED <<notH, bitcoin_conf, rpc_inflight>>

\* App::terminate_electrs_internal: take the handle (if any), announce,
\* spawn the terminating thread; then clear the two flags.  `sd` tags the
\* thread with the command that spawned it.
electrs_after_terminate(sd) ==
    IF electrs_handle # 0
       THEN [procs |-> [procs EXCEPT ![electrs_handle].pc = "t_term",
                                     ![electrs_handle].sd = sd],
             queue |-> push_msg(electrs_queue,
                                "Terminating electrs...")]
       ELSE [procs |-> procs, queue |-> electrs_queue]

\* mutant: the indexer's handle is taken but its flags are left alone
ShutdownElectrsOnly_flags_kept ==
    /\ budget > 0
    /\ budget' = budget - 1
    /\ last' = "ShutdownElectrsOnly"
    /\ procs' = electrs_after_terminate(budget).procs
    /\ electrs_queue' = electrs_after_terminate(budget).queue
    /\ electrs_handle' = 0
    /\ UNCHANGED <<bitcoin_handle, bitcoin_queue, bitcoin_lines,
                   electrs_lines, bitcoin_running, bitcoin_synced,
                   electrs_running, electrs_synced,
                   block_height, overlay_message, signals>>
    /\ UNCHANGED <<notH, bitcoin_conf, launched, rpc_inflight>>

\* Message::ShutdownElectrsOnly.
ShutdownElectrsOnly ==
    /\ budget > 0
    /\ budget' = budget - 1
    /\ last' = "ShutdownElectrsOnly"
    /\ procs' = electrs_after_terminate(budget).procs
    /\ electrs_queue' = electrs_after_terminate(budget).queue
    /\ electrs_handle' = 0
    /\ electrs_running' = FALSE
    /\ electrs_synced' = FALSE
    /\ UNCHANGED <<bitcoin_handle, bitcoin_queue, bitcoin_lines,
                   electrs_lines, bitcoin_running, bitcoin_synced,
                   block_height, overlay_message, signals>>
    /\ UNCHANGED <<notH, bitcoin_conf, launched, rpc_inflight>>

\* Message::ShutdownBoth: the indexer first, then, when the node is marked
\* running, announce and move the node's handle into a worker thread.
ShutdownBoth ==
    LET after_els == electrs_after_terminate(budget).procs
        moved == bitcoin_running /\ bitcoin_handle # 0
    IN
    /\ budget > 0
    /\ budget' = budget - 1
    /\ last' = "ShutdownBoth"
    /\ electrs_queue' = electrs_after_terminate(budget).queue
    /\ electrs_handle' = 0
    /\ electrs_running' = FALSE
    /\ electrs_synced' = FALSE
    /\ bitcoin_queue' =
         IF bitcoin_running
            THEN push_msg(bitcoin_queue, "Sending stop via RPC...")
            ELSE bitcoin_queue
    /\ procs' =
         IF moved
            THEN [after_els EXCEPT ![bitcoin_handle].pc = "rpc",
                                   ![bitcoin_handle].sd = budget]
            ELSE after_els
    /\ bitcoin_handle' = IF bitcoin_running THEN 0 ELSE bitcoin_handle
    /\ bitcoin_running' = (bitcoin_running /\ ~moved)
    /\ bitcoin_synced' = (bitcoin_synced /\ ~moved)
    /\ UNCHANGED <<bitcoin_lines, electrs_lines, block_height,
                   overlay_message, signals>>
    /\ UNCHANGED <<notH, bitcoin_conf, launched, rpc_inflight>>

\* Results the host's polls meet in Spec: an error, a snapshot of a node
\* still catching up, and one of a node at the tip.
HostRpcResults ==
    {[ok |-> FALSE,
      info |-> [blocks |-> 0, headers |-> 0, verification_progress |-> 0]],
     [ok |-> TRUE,
      info |-> [blocks |-> 0, headers |-> 2, verification_progress |-> 0]],
     [ok |-> TRUE,
      info |-> [blocks |-> 1, headers |-> 1,
                verification_progress |-> 100000]]}

\* mutant: the handler waits for the answer and applies it itself
RpcTick_awaits ==
    /\ rpc_inflight < MaxPolls
    /\ \E result \in HostRpcResults :
        /\ block_height' = IF bitcoin_running /\ result.ok
                               THEN result.info.blocks ELSE block_height
        /\ bitcoin_synced' = IF bitcoin_running /\ result.ok
                                 THEN node_synced(result.info)
                                 ELSE bitcoin_synced
    /\ UNCHANGED <<bitcoin_handle, electrs_handle, bitcoin_queue,
                   electrs_queue, bitcoin_lines, electrs_lines,
                   bitcoin_running, electrs_running, electrs_synced,
                   overlay_message, procs, budget, last, signals>>
    /\ UNCHANGED <<notH, bitcoin_conf, launched, rpc_inflight>>

\* Message::RpcTick: nothing unless the node is marked running; else a
\* task is started whose result comes back as BlockchainInfoReceived.
RpcTick ==
    /\ rpc_inflight < MaxPolls
    /\ rpc_inflight' = IF bitcoin_running THEN rpc_inflight + 1
                                         ELSE rpc_inflight
    /\ UNCHANGED <<bitcoin_handle, electrs_handle, bitcoin_queue,
                   electrs_queue, bitcoin_lines, electrs_lines,
                   bitcoin_running, bitcoin_synced, electrs_running,
                   electrs_synced, block_height, overlay_message, procs,
                   budget, last, signals>>
    /\ UNCHANGED <<notH, bitcoin_conf, launched>>

\* Message::BlockchainInfoReceived(result): block_height afterwards.
received_height(result, height) ==
    IF result.ok THEN result.info.blocks ELSE height

\* Message::BlockchainInfoReceived(result): bitcoin_synced afterwards.
received_synced(result, synced) ==
    IF result.ok THEN node_synced(result.info) ELSE synced

\* Message::BlockchainInfoReceived(result).
BlockchainInfoReceived ==
    /\ rpc_inflight > 0
    /\ rpc_inflight' = rpc_inflight - 1
    /\ \E result \in HostRpcResults :
        /\ block_height' = received_height(result, block_height)
        /\ bitcoin_synced' = received_synced(result, bitcoin_synced)
    /\ UNCHANGED <<bitcoin_handle, electrs_handle, bitcoin_queue,
                   electrs_queue, bitcoin_lines, electrs_lines,
                   bitcoin_running, electrs_running, electrs_synced,
                   overlay_message, procs, budget, last, signals>>
    /\ UNCHANGED <<notH, bitcoin_conf, launched>>

\* ---- background threads (one per moved handle) ----

ThreadFrame ==
    UNCHANGED <<bitcoin_handle, electrs_handle, bitcoin_lines, electrs_lines,
                bitcoin_running, bitcoin_synced, electrs_running,
                electrs_synced, block_height, overlay_message, budget, last>>

\* Node worker: the RPC stop request and the branch on its outcome.
T_Rpc(p) ==
    /\ procs[p].pc = "rpc"
    /\ \E stopped \in {stopped_via_rpc(rt_ok, resp) :
                            rt_ok \in BOOLEAN, resp \in RpcResponses} :
        procs' = [procs EXCEPT ![p].pc =
                     IF stopped THEN "w_loop" ELSE "t_term"]
    /\ ThreadFrame
    /\ UNCHANGED <<bitcoin_queue, electrs_queue, signals>>
    /\ UNCHANGED <<notH, bitcoin_conf, launched, rpc_inflight>>

\* Node worker: one turn of the 60 s loop.  Without a clock, whether the
\* deadline has passed is the scheduler's choice.
T_WaitLoop(p) ==
    /\ procs[p].pc = "w_loop"
    /\ \E expired \in BOOLEAN :
        procs' =
          IF wait_after_check(expired) = "t_term"
             THEN [procs EXCEPT ![p].pc = "t_term"]
             ELSE [procs EXCEPT ![p].st = try_wait(@).st,
                                ![p].pc = IF is_running(procs[p].st)
                                             THEN "w_loop" ELSE "t_ret"]
    /\ ThreadFrame
    /\ UNCHANGED <<bitcoin_queue, electrs_queue, signals>>
    /\ UNCHANGED <<notH, bitcoin_conf, launched, rpc_inflight>>

\* terminate: `libc::kill(pid, SIGTERM)`, whatever the child's state.
T_TermSignal(p) ==
    /\ procs[p].pc = "t_term"
    /\ signals' = signals \cup {<<p, "SIGTERM", procs[p].st>>}
    /\ procs' = [procs EXCEPT ![p].pc = "t_loop"]
    /\ ThreadFrame
    /\ UNCHANGED <<bitcoin_queue, electrs_queue>>
    /\ UNCHANGED <<notH, bitcoin_conf, launched, rpc_inflight>>

\* terminate: one turn of the 10 s loop (deadline check, try_wait, sleep).
T_TermLoop(p) ==
    /\ procs[p].pc = "t_loop"
    /\ \E expired \in BOOLEAN :
        procs' =
          IF term_after_check(expired) = "t_kill"
             THEN [procs EXCEPT ![p].pc = "t_kill"]
             ELSE [procs EXCEPT
                     ![p].st = try_wait(@).st,
                     ![p].pc =
                        IF term_after_poll(try_wait(procs[p].st).exited)
                             = "t_ret"
                           THEN "t_ret" ELSE "t_loop"]
    /\ ThreadFrame
    /\ UNCHANGED <<bitcoin_queue, electrs_queue, signals>>
    /\ UNCHANGED <<notH, bitcoin_conf, launched, rpc_inflight>>

\* terminate: `let _ = self.child.kill()`; it ends a live child or fails.
T_TermKill(p) ==
    /\ procs[p].pc = "t_kill"
    /\ UNCHANGED signals
    /\ \/ procs' = [procs EXCEPT ![p].pc = "t_wait",
                                 ![p].st = IF @ = "alive" THEN "zombie" ELSE @]
       \/ /\ procs[p].st = "alive"
          /\ procs' = [procs EXCEPT ![p].pc = "t_wait"]
    /\ ThreadFrame
    /\ UNCHANGED <<bitcoin_queue, electrs_queue>>
    /\ UNCHANGED <<notH, bitcoin_conf, launched, rpc_inflight>>

\* terminate: `let _ = self.child.wait()` returns once the child exited.
T_TermWait(p) ==
    /\ procs[p].pc = "t_wait"
    /\ Exited(procs[p].st)
    /\ procs' = [procs EXCEPT ![p].pc = "t_ret", ![p].st = "reaped"]
    /\ ThreadFrame
    /\ UNCHANGED <<bitcoin_queue, electrs_queue, signals>>
    /\ UNCHANGED <<notH, bitcoin_conf, launched, rpc_inflight>>

\* Last statement of either thread: push "<daemon> stopped."; the thread
\* ends and the handle is dropped.
T_Stopped(p) ==
    /\ procs[p].pc = "t_ret"
    /\ IF procs[p].kind = "btc"
          THEN /\ bitcoin_queue' =
                    push_msg(bitcoin_queue, "bitcoind stopped.")
               /\ UNCHANGED electrs_queue
          ELSE /\ electrs_queue' =
                    push_msg(electrs_queue, "electrs stopped.")
               /\ UNCHANGED bitcoin_queue
    /\ procs' = [procs EXCEPT ![p].pc = "gone"]
    /\ ThreadFrame
    /\ UNCHANGED signals
    /\ UNCHANGED <<notH, bitcoin_conf, launched, rpc_inflight>>

Next ==
    \/ OutputTick
    \/ LaunchBitcoin
    \/ LaunchElectrs
    \/ ShutdownBoth
    \/ ShutdownElectrsOnly
    \/ RpcTick
    \/ BlockchainInfoReceived
    \/ \E p \in Pids : ProcExit(p)
    \/ \E p \in Pids, r \in Readers : ReaderLine(p, r)
    \/ \E p \in Pids : T_Rpc(p)
    \/ \E p \in Pids : T_WaitLoop(p)
    \/ \E p \in Pids : T_TermSignal(p)
    \/ \E p \in Pids : T_TermLoop(p)
    \/ \E p \in Pids : T_TermKill(p)
    \/ \E p \in Pids : T_TermWait(p)
    \/ \E p \in Pids : T_Stopped(p)

\* ------------------------------------------------------------------------
\* SpecLaunch: one call of launch_bitcoind / launch_electrs, statement by
\* statement, with the readers of the child it spawns (process_manager.rs)
\* ------------------------------------------------------------------------

\* Lines each output stream of the launched child carries.
MaxOut == 2

\* A path is its sequence of components.  "Bin<FF>" stands for a component
\* that is not valid UTF-8.
BinariesPaths == {<<"ssd", "Binaries">>, <<"ssd", "Bin<FF>">>}

DataPaths == {<<"ssd", "BitcoinChain">>, <<"ssd", "My Chain">>}

DbPaths == {<<"ssd", "ElectrsDB">>}

\* Path::join.
join(path, name) == Append(path, name)

\* OsStr::to_string_lossy (and Path::display): invalid sequences become
\* U+FFFD, everything else is kept.
to_string_lossy(path) ==
    [i \in DOMAIN path |->
        IF path[i] = "Bin<FF>" THEN "Bin<U+FFFD>" ELSE path[i]]

\* A word of a command is a sequence of string pieces (a literal, or a
\* literal followed by the components of a path).

\* launch_bitcoind, `let cmd = [...]`.
bitcoind_cmd(binaries_path, data_dir) ==
    <<to_string_lossy(join(binaries_path, "bitcoind")),
      <<"-datadir=">> \o to_string_lossy(data_dir),
      <<"-printtoconsole">> >>

\* launch_electrs, `let cmd = [...]`.
electrs_cmd(binaries_path, bitcoin_data_dir, electrs_db_dir) ==
    <<to_string_lossy(join(binaries_path, "electrs")),
      <<"--network">>, <<"bitcoin">>,
      <<"--daemon-dir">>, to_string_lossy(bitcoin_data_dir),
      <<"--db-dir">>, to_string_lossy(electrs_db_dir),
      <<"--electrum-rpc-addr">>, <<"127.0.0.1:50001">> >>

\* format!("$ {}", cmd.join(" ")): the words of the line, in order.
cmd_line(cmd) == << <<"$">> >> \o cmd

\* A line of this queue: where it comes from (the command line "cmd", the
\* child "out", the handler "err", earlier activity "old"), for a child's
\* line its stream and number, and its words.
Line(tag, src, n, words) ==
    [tag |-> tag, src |-> src, n |-> n, words |-> words]

\* The calls the model makes.
LaunchCalls ==
    [kind : {"btc", "els"}, binaries_path : BinariesPaths,
     data_dir : DataPaths, db_dir : DbPaths, env : LaunchEnvs]

\* The cmd array of the call.
cmd_of(c) ==
    IF c.kind = "btc"
       THEN bitcoind_cmd(c.binaries_path, c.data_dir)
       ELSE electrs_cmd(c.binaries_path, c.data_dir, c.db_dir)

\* mutant: the child is spawned before the command line is pushed
launch_step_after_spawn_first(pc) ==
    CASE pc = "check" -> "mkdir"
      [] pc = "mkdir" -> "spawn"
      [] pc = "spawn" -> "push"
      [] pc = "push" -> "running"

\* The order of the statements of launch_*: exists check, create_dir_all,
\* push_line of the command line, spawn, Ok(handle).
launch_step_after(pc) ==
    CASE pc = "check" -> "mkdir"
      [] pc = "mkdir" -> "push"
      [] pc = "push" -> "spawn"
      [] pc = "spawn" -> "running"

\* The queue holds what earlier activity left in it: nothing, or as many
\* lines as it can hold.
InitL ==
    /\ l_in \in LaunchCalls
    /\ l_pc = "check"
    /\ l_queue \in {new_queue,
                    [i \in 1..(CAP + 1) |-> Line("old", "host", i, <<>>)]}
    /\ l_lines = <<>>
    /\ l_out = [r \in Readers |-> 0]
    /\ l_spawned = [called |-> FALSE, program |-> <<>>, args |-> <<>>]
    /\ l_log = <<>>

\* `if !exe.exists() { bail!(...) }`.
L_Check ==
    /\ l_pc = "check"
    /\ l_pc' = IF l_in.env.exists THEN launch_step_after(l_pc) ELSE "failed"
    /\ UNCHANGED <<l_in, l_queue, l_lines, l_out, l_spawned, l_log>>
    /\ UNCHANGED notL

\* `create_dir_all(dir)?`.
L_Mkdir ==
    /\ l_pc = "mkdir"
    /\ l_pc' = IF l_in.env.mkdir THEN launch_step_after(l_pc) ELSE "failed"
    /\ UNCHANGED <<l_in, l_queue, l_lines, l_out, l_spawned, l_log>>
    /\ UNCHANGED notL

\* `push_line(&queue, format!("$ {}", cmd.join(" ")))`.
L_PushCmd ==
    /\ l_pc = "push"
    /\ LET line == Line("cmd", "host", 0, cmd_line(cmd_of(l_in))) IN
        /\ l_queue' = push_line(l_queue, line)
        /\ l_log' = Append(l_log, line)
    /\ l_pc' = launch_step_after(l_pc)
    /\ UNCHANGED <<l_in, l_lines, l_out, l_spawned>>
    /\ UNCHANGED notL

\* `Command::new(&cmd[0]).args(&cmd[1..]).spawn()?`, then
\* spawn_reader_thread: the child runs and its two readers start.
L_Spawn ==
    /\ l_pc = "spawn"
    /\ IF l_in.env.spawn
          THEN /\ l_spawned' = [called |-> TRUE,
                                program |-> Head(cmd_of(l_in)),
                                args |-> Tail(cmd_of(l_in))]
               /\ l_out' \in [Readers -> 1..MaxOut]
               /\ l_pc' = launch_step_after(l_pc)
          ELSE /\ l_pc' = "failed"
               /\ UNCHANGED <<l_out, l_spawned>>
    /\ UNCHANGED <<l_in, l_queue, l_lines, l_log>>
    /\ UNCHANGED notL

\* The handler's Err arm: `push_msg(queue, "Launch error: ...")`.
L_Error ==
    /\ l_pc = "failed"
    /\ LET line == Line("err", "host", 0, << <<"Launch error">> >>) IN
        /\ l_queue' = push_msg(l_queue, line)
        /\ l_log' = Append(l_log, line)
    /\ l_pc' = "done"
    /\ UNCHANGED <<l_in, l_lines, l_out, l_spawned>>
    /\ UNCHANGED notL

\* A reader of the spawned child pushes the next line of its stream.
L_ReaderPush(r) ==
    /\ l_spawned.called
    /\ l_out[r] > 0
    /\ LET line == Line("out", r, l_out[r], <<>>) IN
        /\ l_queue' = push_line(l_queue, line)
        /\ l_log' = Append(l_log, line)
    /\ l_out' = [l_out EXCEPT ![r] = @ - 1]
    /\ UNCHANGED <<l_in, l_pc, l_lines, l_spawned>>
    /\ UNCHANGED notL

\* Message::OutputTick on this queue; update() handles one message at a
\* time, so no tick falls inside the launch handler.
L_Tick ==
    /\ l_pc \in {"running", "done"}
    /\ l_queue # <<>>
    /\ l_lines' = trim_lines(l_lines \o drain_taken(l_queue))
    /\ l_queue' = drain_left(l_queue)
    /\ UNCHANGED <<l_in, l_pc, l_out, l_spawned, l_log>>
    /\ UNCHANGED notL

LaunchStep ==
    \/ L_Check
    \/ L_Mkdir
    \/ L_PushCmd
    \/ L_Spawn
    \/ L_Error
    \/ \E r \in Readers : L_ReaderPush(r)
    \/ L_Tick

\* ------------------------------------------------------------------------
\* Specifications
\* ------------------------------------------------------------------------

\* ------------------------------------------------------------------------
\* RPC polling of the node (SpecRpc): RpcTick and BlockchainInfoReceived
\* over every snapshot, with the node starting and exiting in between
\* ------------------------------------------------------------------------

RpcError ==
    [ok |-> FALSE,
     info |-> [blocks |-> 0, headers |-> 0, verification_progress |-> 0]]

\* What get_blockchain_info can return.
RpcResults == {RpcError} \cup {[ok |-> TRUE, info |-> i] : i \in Snapshots}

InitR ==
    /\ r_bitcoin_running = FALSE
    /\ r_block_height = 0
    /\ r_bitcoin_synced = FALSE
    /\ r_inflight = 0
    /\ r_pc = "idle"
    /\ r_result = RpcError
    /\ r_before = [height |-> 0, synced |-> FALSE]
    /\ r_overlay_message = "None"
    /\ r_bitcoin_queue = new_queue

\* Message::LaunchBitcoin, the Ok arm.
R_LaunchBitcoin ==
    /\ ~r_bitcoin_running
    /\ r_bitcoin_running' = TRUE
    /\ r_bitcoin_synced' = FALSE
    /\ r_pc' = "idle"
    /\ r_bitcoin_queue' = push_line(r_bitcoin_queue, "$ bitcoind")
    /\ UNCHANGED <<r_block_height, r_inflight, r_result, r_before,
                   r_overlay_message>>
    /\ UNCHANGED notR

\* Message::OutputTick, the branch that finds the node exited.
R_NodeExited ==
    /\ r_bitcoin_running
    /\ r_bitcoin_running' = FALSE
    /\ r_bitcoin_synced' = FALSE
    /\ r_block_height' = 0
    /\ r_pc' = "idle"
    /\ r_bitcoin_queue' = push_msg(drain_left(r_bitcoin_queue),
                                   "bitcoind has stopped.")
    /\ UNCHANGED <<r_inflight, r_result, r_before, r_overlay_message>>
    /\ UNCHANGED notR

\* Message::RpcTick.
R_RpcTick ==
    /\ r_inflight < MaxPolls
    /\ r_inflight' = IF r_bitcoin_running THEN r_inflight + 1 ELSE r_inflight
    /\ r_pc' = "idle"
    /\ UNCHANGED <<r_bitcoin_running, r_block_height, r_bitcoin_synced,
                   r_result, r_before, r_overlay_message, r_bitcoin_queue>>
    /\ UNCHANGED notR

\* Message::BlockchainInfoReceived(result).
R_BlockchainInfoReceived ==
    /\ r_inflight > 0
    /\ r_inflight' = r_inflight - 1
    /\ \E result \in RpcResults :
        /\ r_result' = result
        /\ r_block_height' = received_height(result, r_block_height)
        /\ r_bitcoin_synced' = received_synced(result, r_bitcoin_synced)
    /\ r_before' = [height |-> r_block_height, synced |-> r_bitcoin_synced]
    /\ r_pc' = "received"
    /\ UNCHANGED <<r_bitcoin_running, r_overlay_message, r_bitcoin_queue>>
    /\ UNCHANGED notR

RpcStep ==
    \/ R_LaunchBitcoin
    \/ R_NodeExited
    \/ R_RpcTick
    \/ R_BlockchainInfoReceived

\* ------------------------------------------------------------------------
\* Binary update (updater.rs; ui.rs UpdateBinaries / UpdateResult)
\* ------------------------------------------------------------------------

\* Update tasks the host starts in one behaviour.
MaxRuns == 2

\* Filesystem operations that fail for an outside reason in one behaviour.
MaxFailures == 1

Runs == 1..MaxRuns

BitcoinNames == <<"bitcoind", "bitcoin-cli", "bitcoin-tx", "bitcoin-util">>

ElectrsNames == <<"electrs">>

AllNames == Range(BitcoinNames) \cup Range(ElectrsNames)

names_of(comp) == IF comp = "btc" THEN BitcoinNames ELSE ElectrsNames

\* The entries the binaries folder is made of in the model. A directory
\* entry has its name, the name spelled out (the word before the first
\* "-", the "-", then the characters of the rest), and whether it is a
\* directory.
FolderEntries ==
    LET Entry(name, spelled, is_dir) ==
            [name |-> name, spelled |-> spelled, is_dir |-> is_dir]
    IN
    {Entry("bitcoin-26.0", <<"bitcoin", "-", "2", "6", ".", "0">>, TRUE),
     Entry("bitcoin-27.0", <<"bitcoin", "-", "2", "7", ".", "0">>, TRUE),
     Entry("bitcoin-27.1", <<"bitcoin", "-", "2", "7", ".", "1">>, TRUE),
     Entry("bitcoin-27.0.0",
           <<"bitcoin", "-", "2", "7", ".", "0", ".", "0">>, TRUE),
     Entry("bitcoin-27.x", <<"bitcoin", "-", "2", "7", ".", "x">>, TRUE),
     Entry("bitcoin-1", <<"bitcoin", "-", "1">>, TRUE),
     Entry("bitcoin-", <<"bitcoin", "-">>, TRUE),
     Entry("bitcoin-.5", <<"bitcoin", "-", ".", "5">>, TRUE),
     Entry("bitcoin-abc", <<"bitcoin", "-", "a", "b", "c">>, TRUE),
     Entry("bitcoin--1", <<"bitcoin", "-", "-", "1">>, TRUE),
     Entry("bitcoin", <<"bitcoin">>, TRUE),
     Entry("bitcoin-28.0", <<"bitcoin", "-", "2", "8", ".", "0">>, FALSE),
     Entry("electrs-0.10.5",
           <<"electrs", "-", "0", ".", "1", "0", ".", "5">>, TRUE)}

\* The download trees an update can meet: what exists under
\* ~/Downloads/bitcoin_builds, whether BitForge.app is installed, the
\* entries of the binaries folder and the binaries each version folder
\* holds.
DownloadTrees ==
    LET Folder(name) == CHOOSE e \in FolderEntries : e.name = name
        Btc270 == Folder("bitcoin-27.0")
        Btc271 == Folder("bitcoin-27.1")
        Btc280File == Folder("bitcoin-28.0")
        BtcAbc == Folder("bitcoin-abc")
        Etr0105 == Folder("electrs-0.10.5")
        NoFiles == [f \in {"bitcoin-27.0", "bitcoin-27.1", "bitcoin-abc",
                           "electrs-0.10.5"} |-> {}]
        Tree(downloads, bitforge, binaries, entries, files) ==
            [downloads |-> downloads, bitforge |-> bitforge,
             binaries |-> binaries, entries |-> entries, files |-> files]
    IN
    {Tree(FALSE, TRUE, FALSE, {}, NoFiles),
     Tree(FALSE, FALSE, FALSE, {}, NoFiles),
     Tree(TRUE, TRUE, FALSE, {}, NoFiles),
     Tree(TRUE, FALSE, TRUE, {Btc280File, BtcAbc}, NoFiles),
     Tree(TRUE, FALSE, TRUE, {Btc270, Etr0105}, NoFiles),
     Tree(TRUE, FALSE, TRUE, {Btc270, Btc271, BtcAbc},
          [NoFiles EXCEPT !["bitcoin-27.1"] = {"bitcoind", "bitcoin-cli"},
                          !["bitcoin-27.0"] = {"bitcoind"}]),
     Tree(TRUE, FALSE, TRUE, {Etr0105},
          [NoFiles EXCEPT !["electrs-0.10.5"] = {"electrs"}]),
     Tree(TRUE, TRUE, TRUE, {Btc270, Btc280File, Etr0105},
          [NoFiles EXCEPT !["bitcoin-27.0"] = {"bitcoind", "bitcoin-cli"},
                          !["electrs-0.10.5"] = {"electrs"}])}

\* name.strip_prefix("<prefix>-"): the characters after it, or "None".
strip_prefix(spelled, prefix) ==
    IF Len(spelled) >= 2 /\ spelled[1] = prefix /\ spelled[2] = "-"
       THEN SubSeq(spelled, 3, Len(spelled))
       ELSE "None"

\* s.splitn(n, c): at most n pieces, the last one holding the remainder.
RECURSIVE splitn(_, _, _)
splitn(s, n, c) ==
    IF n <= 1 \/ c \notin Range(s)
       THEN <<s>>
       ELSE LET i == CHOOSE k \in 1..Len(s) :
                        s[k] = c /\ \A m \in 1..(k - 1) : s[m] # c
            IN  <<SubSeq(s, 1, i - 1)>>
                   \o splitn(SubSeq(s, i + 1, Len(s)), n - 1, c)

\* str::parse::<u64>: decimal digits after an optional "+"; -1 stands for
\* Err. The strings of the model are far too short to pass 2^64.
parse_u64(p) ==
    LET digit_value ==
            ("0" :> 0) @@ ("1" :> 1) @@ ("2" :> 2) @@ ("3" :> 3) @@
            ("4" :> 4) @@ ("5" :> 5) @@ ("6" :> 6) @@ ("7" :> 7) @@
            ("8" :> 8) @@ ("9" :> 9)
        RECURSIVE digits_value(_)
        digits_value(d) ==
            IF d = <<>> THEN 0
            ELSE 10 * digits_value(SubSeq(d, 1, Len(d) - 1))
                    + digit_value[d[Len(d)]]
        d == IF p # <<>> /\ p[1] = "+" THEN Tail(p) ELSE p
    IN  IF d = <<>> \/ \E k \in 1..Len(d) : d[k] \notin DOMAIN digit_value
           THEN -1
           ELSE digits_value(d)

\* mutant: a version without a minor part is not a version
parse_semver_needs_minor(s) ==
    LET parts == splitn(s, 4, ".")
    IN  IF parse_u64(parts[1]) < 0 \/ Len(parts) < 2
           THEN <<>>
           ELSE <<parse_u64(parts[1]),
                  IF parse_u64(parts[2]) >= 0 THEN parse_u64(parts[2]) ELSE 0,
                  IF Len(parts) >= 3 /\ parse_u64(parts[3]) >= 0
                     THEN parse_u64(parts[3]) ELSE 0>>

\* parse_semver: None (the empty tuple) unless the first piece is a
\* number; a missing or non-numeric second or third piece counts as 0.
parse_semver(s) ==
    LET parts == splitn(s, 4, ".")
        major == parse_u64(parts[1])
        piece(k) == IF Len(parts) >= k /\ parse_u64(parts[k]) >= 0
                       THEN parse_u64(parts[k]) ELSE 0
    IN  IF major < 0 THEN <<>> ELSE <<major, piece(2), piece(3)>>

\* mutant: only the major numbers are compared
ver_gt_major_only(a, b) == a[1] > b[1]

\* mutant: an equal version also replaces the current best
ver_ge(a, b) ==
    \/ a[1] > b[1]
    \/ a[1] = b[1] /\ a[2] > b[2]
    \/ a[1] = b[1] /\ a[2] = b[2] /\ a[3] >= b[3]

\* `ver > *best_ver` on (u64, u64, u64).
ver_gt(a, b) ==
    \/ a[1] > b[1]
    \/ a[1] = b[1] /\ a[2] > b[2]
    \/ a[1] = b[1] /\ a[2] = b[2] /\ a[3] > b[3]

\* The entries find_latest_version considers: directories named
\* `<prefix>-<version>` whose version parses.
versioned(entries, prefix) ==
    {e \in entries : /\ e.is_dir
                     /\ strip_prefix(e.spelled, prefix) # "None"
                     /\ parse_semver(strip_prefix(e.spelled, prefix)) # <<>>}

\* find_latest_version: the folder names it can return, "None" when no
\* entry qualifies; among equal highest versions the first one read_dir
\* yields wins, and read_dir's order is not fixed.
find_latest_version(entries, prefix) ==
    LET c == versioned(entries, prefix)
    IN  IF c = {} THEN {"None"}
        ELSE {e.name : e \in {x \in c : \A y \in c :
                 ~ver_gt(parse_semver(strip_prefix(y.spelled, prefix)),
                         parse_semver(strip_prefix(x.spelled, prefix)))}}

\* A file: its content ("absent", "old" for the installed binary, "partial"
\* while a copy is under way or was cut short, "new" for a complete copy of
\* the source), its mode, and the run that last truncated it.
Absent == [st |-> "absent", mode |-> 0, by |-> 0]

OldBinary == [st |-> "old", mode |-> 755, by |-> 0]

NoResult == [tag |-> "None", msg |-> <<>>, path |-> ""]

Result(tag, msg, path) == [tag |-> tag, msg |-> msg, path |-> path]

\* mutant: the binaries sub-folder is looked for before the download folder
run_update_outcome_binaries_first(tree, btc_folder, etr_folder) ==
    IF ~tree.binaries THEN Result("BinariesSubfolderMissing", <<>>, "")
    ELSE IF ~tree.downloads
       THEN IF tree.bitforge
               THEN Result("BitForgeFound", <<>>, "/Applications/BitForge.app")
               ELSE Result("BitForgeNotFound", <<>>, "")
    ELSE IF btc_folder = "None" /\ etr_folder = "None"
       THEN Result("NothingToUpdate", <<>>, "")
    ELSE NoResult

\* run_update, lines 127-148: the early returns in their order; NoResult
\* when the copy passes are to run.
run_update_outcome(tree, btc_folder, etr_folder) ==
    IF ~tree.downloads
       THEN IF tree.bitforge
               THEN Result("BitForgeFound", <<>>, "/Applications/BitForge.app")
               ELSE Result("BitForgeNotFound", <<>>, "")
    ELSE IF ~tree.binaries THEN Result("BinariesSubfolderMissing", <<>>, "")
    ELSE IF btc_folder = "None" /\ etr_folder = "None"
       THEN Result("NothingToUpdate", <<>>, "")
    ELSE NoResult

\* mutant: a pass that failed reports nothing
pass_message_silent(comp, folder, copied, err) ==
    IF err = "" /\ copied # <<>>
       THEN <<[kind |-> "copied", comp |-> comp, folder |-> folder,
               names |-> copied, text |-> ""]>>
       ELSE <<>>

\* run_update, the match on copy_binaries' result: what is pushed onto
\* `messages` after one pass.
pass_message(comp, folder, copied, err) ==
    IF err # ""
       THEN <<[kind |-> "error", comp |-> comp, folder |-> "",
               names |-> <<>>, text |-> err]>>
    ELSE IF copied # <<>>
       THEN <<[kind |-> "copied", comp |-> comp, folder |-> folder,
               names |-> copied, text |-> ""]>>
    ELSE <<>>

\* run_update, lines 178-182.
final_result(messages) ==
    IF messages = <<>> THEN Result("NothingToUpdate", <<>>, "")
                       ELSE Result("Updated", messages, "")

IdleRun ==
    [pc |-> "idle", comp |-> "btc", i |-> 1,
     btc_folder |-> "None", etr_folder |-> "None",
     copied |-> <<>>, err |-> "", messages |-> <<>>, result |-> NoResult,
     fd |-> "none", touched |-> FALSE, replaced |-> {}, failed |-> {},
     errs |-> {}, passes |-> {}]

InitU ==
    /\ u_tree \in DownloadTrees
    /\ u_dstdir \in BOOLEAN
    /\ u_dst = [n \in AllNames |-> IF u_dstdir THEN OldBinary ELSE Absent]
    /\ u_tmp = [n \in AllNames |-> Absent]
    /\ u_run = [r \in Runs |-> IdleRun]
    /\ u_fail = MaxFailures
    /\ u_queue = new_queue
    /\ u_overlay = [text |-> "", detail |-> <<>>, bitforge_path |-> ""]

\* The binary a run's pass is at, and the folder the pass copies from.
cur_name(run) == names_of(run.comp)[run.i]

cur_folder(run) == IF run.comp = "btc" THEN run.btc_folder ELSE run.etr_folder

\* `?` on a failed filesystem call: copy_binaries returns the error.
pass_failed(run, what, names) ==
    [run EXCEPT !.err = what, !.failed = @ \cup names,
                !.errs = @ \cup {<<run.comp, what>>}, !.fd = "none",
                !.pc = "pass_end"]

\* Message::UpdateBinaries: start the task. With alone = TRUE the user
\* waits for the previous result before pressing the button again.
U_UpdateBinaries(r, alone) ==
    /\ u_run[r].pc = "idle"
    /\ \A o \in Runs : o < r => u_run[o].pc # "idle"
    /\ alone => \A o \in Runs : u_run[o].pc \in {"idle", "shown"}
    /\ u_run' = [u_run EXCEPT ![r].pc = "check"]
    /\ UNCHANGED <<u_tree, u_dstdir, u_dst, u_tmp, u_fail, u_queue, u_overlay>>
    /\ UNCHANGED notU

\* run_update up to the copy passes: the early returns, else the folders
\* chosen for the two components.
U_RunUpdate(r) ==
    /\ u_run[r].pc = "check"
    /\ \E b \in find_latest_version(u_tree.entries, "bitcoin"),
          e \in find_latest_version(u_tree.entries, "electrs") :
        LET out == run_update_outcome(u_tree, b, e)
        IN  u_run' = [u_run EXCEPT ![r] =
              IF out # NoResult
                 THEN [@ EXCEPT !.result = out, !.pc = "task"]
                 ELSE [@ EXCEPT !.btc_folder = b, !.etr_folder = e,
                                !.comp = IF b # "None" THEN "btc" ELSE "etr",
                                !.pc = "mkdir"]]
    /\ UNCHANGED <<u_tree, u_dstdir, u_dst, u_tmp, u_fail, u_queue, u_overlay>>
    /\ UNCHANGED notU

\* copy_binaries: create_dir_all(dst_dir), then the empty `copied`.
U_Mkdir(r) ==
    /\ u_run[r].pc = "mkdir"
    /\ \/ /\ u_dstdir' = TRUE
          /\ u_run' = [u_run EXCEPT ![r] =
                [@ EXCEPT !.copied = <<>>, !.err = "", !.i = 1,
                          !.touched = @ \/ ~u_dstdir,
                          !.passes = @ \cup {u_run[r].comp},
                          !.pc = "name"]]
          /\ UNCHANGED u_fail
       \/ /\ u_fail > 0
          /\ u_fail' = u_fail - 1
          /\ u_run' = [u_run EXCEPT ![r] =
                pass_failed([@ EXCEPT !.copied = <<>>,
                                      !.passes = @ \cup {u_run[r].comp}],
                            "create binaries dir", {})]
          /\ UNCHANGED u_dstdir
    /\ UNCHANGED <<u_tree, u_dst, u_tmp, u_queue, u_overlay>>
    /\ UNCHANGED notU

\* copy_binaries, top of the loop: the end of the list, a name missing from
\* the source folder, or fs::copy opening (creating or truncating) the
\* temporary file.
U_Name(r) ==
    LET run == u_run[r] IN
    /\ run.pc = "name"
    /\ IF run.i > Len(names_of(run.comp))
          THEN /\ u_run' = [u_run EXCEPT ![r].pc = "pass_end"]
               /\ UNCHANGED <<u_tmp, u_fail>>
       ELSE IF cur_name(run) \notin u_tree.files[cur_folder(run)]
          THEN /\ u_run' = [u_run EXCEPT ![r].i = @ + 1]
               /\ UNCHANGED <<u_tmp, u_fail>>
       ELSE \/ /\ u_tmp' = [u_tmp EXCEPT ![cur_name(run)] =
                              [st |-> "partial", mode |-> 644, by |-> r]]
               /\ u_run' = [u_run EXCEPT ![r] =
                     [@ EXCEPT !.fd = "tmp", !.touched = TRUE,
                               !.pc = "copying"]]
               /\ UNCHANGED u_fail
            \/ /\ u_fail > 0
               /\ u_fail' = u_fail - 1
               /\ u_run' = [u_run EXCEPT ![r] =
                     pass_failed(@, "copy to temp", {cur_name(run)})]
               /\ UNCHANGED u_tmp
    /\ UNCHANGED <<u_tree, u_dstdir, u_dst, u_queue, u_overlay>>
    /\ UNCHANGED notU

\* mutant: fs::copy returns Ok with part of the data written
written_short(file, r) == {[file EXCEPT !.st = "partial"]}

\* What the file a writer finishes holds: everything when nobody truncated
\* it since this writer opened it, else whatever the two unsynchronised
\* writers have left at this moment.
written(file, r) ==
    IF file.by = r \/ file.st = "new"
       THEN {[file EXCEPT !.st = "new"]}
       ELSE {[file EXCEPT !.st = "partial"], [file EXCEPT !.st = "new"]}

\* fs::copy writing the data through its open descriptor, which follows
\* the file when another run renames it.
U_CopyEnd(r) ==
    LET run == u_run[r]
        n == cur_name(run)
    IN
    /\ run.pc = "copying"
    /\ \/ /\ u_run' = [u_run EXCEPT ![r] =
                [@ EXCEPT !.fd = "none", !.pc = "stat"]]
          /\ CASE run.fd = "tmp" ->
                    /\ \E f \in written(u_tmp[n], r) :
                          u_tmp' = [u_tmp EXCEPT ![n] = f]
                    /\ UNCHANGED u_dst
               [] run.fd = "dst" ->
                    /\ \E f \in written(u_dst[n], r) :
                          u_dst' = [u_dst EXCEPT ![n] = f]
                    /\ UNCHANGED u_tmp
               [] OTHER -> UNCHANGED <<u_tmp, u_dst>>
          /\ UNCHANGED u_fail
       \/ /\ u_fail > 0
          /\ u_fail' = u_fail - 1
          /\ u_run' = [u_run EXCEPT ![r] =
                pass_failed(@, "copy to temp", {n})]
          /\ UNCHANGED <<u_tmp, u_dst>>
    /\ UNCHANGED <<u_tree, u_dstdir, u_queue, u_overlay>>
    /\ UNCHANGED notU

\* fs::metadata(&tmp).
U_Stat(r) ==
    LET run == u_run[r]
        n == cur_name(run)
    IN
    /\ run.pc = "stat"
    /\ IF u_tmp[n].st = "absent"
          THEN /\ u_run' = [u_run EXCEPT ![r] = pass_failed(@, "stat", {n})]
               /\ UNCHANGED u_fail
          ELSE \/ /\ u_run' = [u_run EXCEPT ![r].pc = "chmod"]
                  /\ UNCHANGED u_fail
               \/ /\ u_fail > 0
                  /\ u_fail' = u_fail - 1
                  /\ u_run' = [u_run EXCEPT ![r] =
                        pass_failed(@, "stat", {n})]
    /\ UNCHANGED <<u_tree, u_dstdir, u_dst, u_tmp, u_queue, u_overlay>>
    /\ UNCHANGED notU

\* mutant: the permission change is left out, the pass goes on to the rename
U_Chmod_skipped(r) ==
    /\ u_run[r].pc = "chmod"
    /\ u_run' = [u_run EXCEPT ![r].pc = "rename"]
    /\ UNCHANGED <<u_tree, u_dstdir, u_dst, u_tmp, u_fail, u_queue, u_overlay>>
    /\ UNCHANGED notU

\* perms.set_mode(0o755); fs::set_permissions(&tmp, perms).
U_Chmod(r) ==
    LET run == u_run[r]
        n == cur_name(run)
    IN
    /\ run.pc = "chmod"
    /\ IF u_tmp[n].st = "absent"
          THEN /\ u_run' = [u_run EXCEPT ![r] = pass_failed(@, "chmod", {n})]
               /\ UNCHANGED <<u_tmp, u_fail>>
          ELSE \/ /\ u_tmp' = [u_tmp EXCEPT ![n].mode = 755]
                  /\ u_run' = [u_run EXCEPT ![r].pc = "rename"]
                  /\ UNCHANGED u_fail
               \/ /\ u_fail > 0
                  /\ u_fail' = u_fail - 1
                  /\ u_run' = [u_run EXCEPT ![r] =
                        pass_failed(@, "chmod", {n})]
                  /\ UNCHANGED u_tmp
    /\ UNCHANGED <<u_tree, u_dstdir, u_dst, u_queue, u_overlay>>
    /\ UNCHANGED notU

\* mutant: the newest name goes to the front of the list
copied_push_front(copied, name) == <<name>> \o copied

\* copied.push(name.to_owned()).
copied_push(copied, name) == Append(copied, name)

\* fs::rename(&tmp, &dst); copied.push(name).
U_Rename(r) ==
    LET run == u_run[r]
        n == cur_name(run)
    IN
    /\ run.pc = "rename"
    /\ IF u_tmp[n].st = "absent"
          THEN /\ u_run' = [u_run EXCEPT ![r] = pass_failed(@, "rename", {n})]
               /\ UNCHANGED <<u_tmp, u_dst, u_fail>>
          ELSE \/ /\ u_dst' = [u_dst EXCEPT ![n] = u_tmp[n]]
                  /\ u_tmp' = [u_tmp EXCEPT ![n] = Absent]
                  /\ u_run' = [o \in Runs |->
                        IF o = r
                           THEN [run EXCEPT !.copied = copied_push(@, n),
                                            !.replaced = @ \cup {n},
                                            !.i = @ + 1, !.pc = "name"]
                        ELSE IF /\ u_run[o].pc = "copying"
                                /\ cur_name(u_run[o]) = n
                           THEN [u_run[o] EXCEPT !.fd =
                                   IF @ = "tmp" THEN "dst" ELSE "gone"]
                        ELSE u_run[o]]
                  /\ UNCHANGED u_fail
               \/ /\ u_fail > 0
                  /\ u_fail' = u_fail - 1
                  /\ u_run' = [u_run EXCEPT ![r] =
                        pass_failed(@, "rename", {n})]
                  /\ UNCHANGED <<u_tmp, u_dst>>
    /\ UNCHANGED <<u_tree, u_dstdir, u_queue, u_overlay>>
    /\ UNCHANGED notU

\* run_update: the match on the pass's result, then the next component's
\* pass if it has a folder.
U_PassEnd(r) ==
    LET run == u_run[r]
        msgs == run.messages \o pass_message(IF run.comp = "btc" THEN "Bitcoin"
                                                            ELSE "Electrs",
                                  cur_folder(run), run.copied, run.err)
    IN
    /\ run.pc = "pass_end"
    /\ u_run' = [u_run EXCEPT ![r] =
          IF run.comp = "btc" /\ run.etr_folder # "None"
             THEN [@ EXCEPT !.messages = msgs, !.comp = "etr",
                            !.pc = "mkdir"]
             ELSE [@ EXCEPT !.messages = msgs, !.pc = "return"]]
    /\ UNCHANGED <<u_tree, u_dstdir, u_dst, u_tmp, u_fail, u_queue, u_overlay>>
    /\ UNCHANGED notU

\* run_update, lines 178-182.
U_Return(r) ==
    /\ u_run[r].pc = "return"
    /\ u_run' = [u_run EXCEPT ![r] =
          [@ EXCEPT !.result = final_result(u_run[r].messages), !.pc = "task"]]
    /\ UNCHANGED <<u_tree, u_dstdir, u_dst, u_tmp, u_fail, u_queue, u_overlay>>
    /\ UNCHANGED notU

\* The task's match on the result: "Update complete" goes to the node's
\* queue for Updated, and the text for the overlay is formed.
U_Task(r) ==
    /\ u_run[r].pc = "task"
    /\ u_queue' = IF u_run[r].result.tag = "Updated"
                     THEN push_msg(u_queue, [text |-> "Update complete: ",
                                             detail |-> u_run[r].result.msg])
                     ELSE u_queue
    /\ u_run' = [u_run EXCEPT ![r].pc = "result"]
    /\ UNCHANGED <<u_tree, u_dstdir, u_dst, u_tmp, u_fail, u_overlay>>
    /\ UNCHANGED notU

\* The text the task hands to Message::UpdateResult.
overlay_of(result) ==
    CASE result.tag = "Updated" ->
            [text |-> "Successfully updated:", detail |-> result.msg,
             bitforge_path |-> ""]
      [] result.tag = "BitForgeFound" ->
            [text |-> "No bitcoin_builds folder found. BitForge.app is installed",
             detail |-> <<>>, bitforge_path |-> result.path]
      [] result.tag = "BitForgeNotFound" ->
            [text |-> "No bitcoin_builds folder found.", detail |-> <<>>,
             bitforge_path |-> ""]
      [] result.tag = "BinariesSubfolderMissing" ->
            [text |-> "Found ~/Downloads/bitcoin_builds but no 'binaries/' sub-folder inside it.",
             detail |-> <<>>, bitforge_path |-> ""]
      [] OTHER ->
            [text |-> "No bitcoin-X.Y.Z or electrs-X.Y.Z folders found in the binaries folder.",
             detail |-> <<>>, bitforge_path |-> ""]

\* Message::UpdateResult(msg).
U_UpdateResult(r) ==
    /\ u_run[r].pc = "result"
    /\ u_overlay' = overlay_of(u_run[r].result)
    /\ u_run' = [u_run EXCEPT ![r].pc = "shown"]
    /\ UNCHANGED <<u_tree, u_dstdir, u_dst, u_tmp, u_fail, u_queue>>
    /\ UNCHANGED notU

\* One update at a time.
UpdateStep ==
    \E r \in Runs :
        \/ U_UpdateBinaries(r, TRUE)
        \/ U_RunUpdate(r)
        \/ U_Mkdir(r)
        \/ U_Name(r)
        \/ U_CopyEnd(r)
        \/ U_Stat(r)
        \/ U_Chmod(r)
        \/ U_Rename(r)
        \/ U_PassEnd(r)
        \/ U_Return(r)
        \/ U_Task(r)
        \/ U_UpdateResult(r)

\* The button pressed again whenever the user likes.
OverlapStep ==
    \E r \in Runs :
        \/ U_UpdateBinaries(r, FALSE)
        \/ U_RunUpdate(r)
        \/ U_Mkdir(r)
        \/ U_Name(r)
        \/ U_CopyEnd(r)
        \/ U_Stat(r)
        \/ U_Chmod(r)
        \/ U_Rename(r)
        \/ U_PassEnd(r)
        \/ U_Return(r)
        \/ U_Task(r)
        \/ U_UpdateResult(r)

\* ------------------------------------------------------------------------
\* find_latest_version, entry by entry (SpecVersion)
\* ------------------------------------------------------------------------

\* Entries in the folder that is searched.
MaxEntries == 3

\* read_dir yields up to MaxEntries different entries in any order.
InitV ==
    /\ v_dir \in {d \in UNION {[1..n -> FolderEntries] : n \in 0..MaxEntries} :
                    \A i, j \in DOMAIN d : i # j => d[i] # d[j]}
    /\ v_readable \in BOOLEAN
    /\ v_prefix \in {"bitcoin", "electrs"}
    /\ v_pc = "call"
    /\ v_i = 1
    /\ v_best = [some |-> FALSE, ver |-> <<>>, name |-> ""]
    /\ v_parsed = [called |-> FALSE, input |-> <<>>, out |-> <<>>]
    /\ v_ret = "None"

\* fs::read_dir(search_dir).ok()?
V_ReadDir ==
    /\ v_pc = "call"
    /\ v_pc' = IF v_readable THEN "loop" ELSE "done"
    /\ UNCHANGED <<v_dir, v_readable, v_prefix, v_i, v_best, v_parsed, v_ret>>
    /\ UNCHANGED notV

\* One turn of the loop over the entries.
V_Entry ==
    /\ v_pc = "loop"
    /\ v_i <= Len(v_dir)
    /\ v_i' = v_i + 1
    /\ LET e == v_dir[v_i]
           version_str == strip_prefix(e.spelled, v_prefix)
           ver == parse_semver(version_str)
       IN  IF ~e.is_dir \/ version_str = "None"
              THEN UNCHANGED <<v_best, v_parsed>>
              ELSE /\ v_parsed' = [called |-> TRUE, input |-> version_str,
                                   out |-> ver]
                   /\ v_best' =
                        IF ver = <<>> THEN v_best
                        ELSE IF ~v_best.some \/ ver_gt(ver, v_best.ver)
                           THEN [some |-> TRUE, ver |-> ver, name |-> e.name]
                        ELSE v_best
    /\ UNCHANGED <<v_dir, v_readable, v_prefix, v_pc, v_ret>>
    /\ UNCHANGED notV

\* best.map(|(_, name)| name)
V_Return ==
    /\ v_pc = "loop"
    /\ v_i > Len(v_dir)
    /\ v_ret' = IF v_best.some THEN v_best.name ELSE "None"
    /\ v_pc' = "done"
    /\ UNCHANGED <<v_dir, v_readable, v_prefix, v_i, v_best, v_parsed>>
    /\ UNCHANGED notV

VersionStep == V_ReadDir \/ V_Entry \/ V_Return

\* No find_latest_version call under way.
IdleV ==
    /\ InitV
    /\ v_dir = <<>>
    /\ v_readable
    /\ v_prefix = "bitcoin"

\* ------------------------------------------------------------------------
\* RpcAuth::from_data_dir (rpc.rs), source by source (SpecAuth)
\* ------------------------------------------------------------------------

\* A file that read_to_string cannot read, and one it reads as `text`: a
\* sequence of pieces, each a word, a digit or one of " ", "\n", ":".
NoFile == [exists |-> FALSE, text |-> <<>>]

File(text) == [exists |-> TRUE, text |-> text]

\* The cookie files of the model.
CookieFiles ==
    {NoFile,
     File(<<"__cookie__", ":", "s3cr3t", "\n">>),
     File(<<" ", "u", ":", "a", ":", "b", " ">>),
     File(<<"garbage", "\n">>),
     File(<<>>)}

\* The bitcoin.conf texts of the model, by name.
ConfNames == {"generated", "full", "user only", "port 65536", "bad first",
              "spaced"}

ConfText(name) ==
    CASE name = "generated" ->
           <<"# auto-generated", "\n", "server=1", "\n", "txindex=1", "\n",
             "rpcport=", "8", "3", "3", "2", "\n", "rpcallowip=127.0.0.1",
             "\n">>
      [] name = "full" ->
           <<"rpcuser=", "alice", "\n", "rpcpassword=", "pw", "\n",
             "rpcport=", "1", "8", "4", "4", "3", "\n">>
      [] name = "user only" ->
           <<"rpcuser=", "alice", "\n">>
      [] name = "port 65536" ->
           <<"rpcpassword=", "pw", "\n", "rpcport=", "6", "5", "5", "3", "6">>
      [] name = "bad first" ->
           <<"rpcport=", "abc", "\n", "rpcport=", "8", "3", "3", "3", "\n",
             "rpcuser", " ", "=", "alice", "\n", "rpcpassword=", "pw">>
      [] name = "spaced" ->
           <<" ", "rpcport=", " ", "8", "3", "3", "3", " ", "\n",
             "#", "rpcuser=", "eve", "\n", "rpcuser=", "al", "\n",
             " ", "rpcuser=", " ", "bob", "\n", "rpcpassword=", "pw", "\n">>

\* The bitcoin.conf files of the model.
ConfFiles == {NoFile} \cup {File(ConfText(name)) : name \in ConfNames}

\* str::trim: leading and trailing whitespace removed.
RECURSIVE trim(_)
trim(s) ==
    IF s = <<>> THEN s
    ELSE IF Head(s) \in {" ", "\n"} THEN trim(Tail(s))
    ELSE IF s[Len(s)] \in {" ", "\n"} THEN trim(SubSeq(s, 1, Len(s) - 1))
    ELSE s

\* str::split_once(c): the text before and after the first c, if any.
split_once(s, c) ==
    IF c \notin Range(s) THEN [some |-> FALSE, before |-> <<>>, after |-> <<>>]
    ELSE LET i == CHOOSE k \in 1..Len(s) :
                     s[k] = c /\ \A m \in 1..(k - 1) : s[m] # c
         IN  [some |-> TRUE, before |-> SubSeq(s, 1, i - 1),
              after |-> SubSeq(s, i + 1, Len(s))]

\* str::lines: the text split at "\n", without an empty last line.
RECURSIVE text_lines(_)
text_lines(s) ==
    IF s = <<>> THEN <<>>
    ELSE IF "\n" \notin Range(s) THEN <<s>>
    ELSE LET cut == split_once(s, "\n")
         IN  <<cut.before>> \o text_lines(cut.after)

\* line.strip_prefix(key), for the keys "rpcport=", "rpcuser=",
\* "rpcpassword=": the rest of the line, if the line starts with the key.
strip_key(line, key) ==
    IF line # <<>> /\ line[1] = key THEN [some |-> TRUE, rest |-> Tail(line)]
    ELSE [some |-> FALSE, rest |-> <<>>]

\* mutant: the port is parsed without the limit of u16
parse_u16_wide(p) == parse_u64(p)

\* str::parse::<u16>: as parse_u64, and Err (-1) above 65535.
parse_u16(p) ==
    IF parse_u64(p) > 65535 THEN -1 ELSE parse_u64(p)

\* read_rpc_port: the value of the first rpcport= line, -1 for None.
RECURSIVE first_rpcport(_)
first_rpcport(ls) ==
    IF ls = <<>> THEN -1
    ELSE IF strip_key(trim(Head(ls)), "rpcport=").some
       THEN parse_u16(trim(strip_key(trim(Head(ls)), "rpcport=").rest))
    ELSE first_rpcport(Tail(ls))

read_rpc_port(conf) ==
    IF ~conf.exists THEN -1 ELSE first_rpcport(text_lines(conf.text))

\* read_static_credentials: the loop over the lines, last value winning.
RECURSIVE last_value(_, _)
last_value(ls, key) ==
    IF ls = <<>> THEN [some |-> FALSE, value |-> <<>>]
    ELSE IF strip_key(trim(ls[Len(ls)]), key).some
       THEN [some |-> TRUE,
             value |-> trim(strip_key(trim(ls[Len(ls)]), key).rest)]
    ELSE last_value(SubSeq(ls, 1, Len(ls) - 1), key)

read_static_credentials(conf) ==
    LET user == last_value(text_lines(conf.text), "rpcuser=")
        password == last_value(text_lines(conf.text), "rpcpassword=")
    IN  [some |-> conf.exists /\ user.some /\ password.some,
         user |-> user.value, password |-> password.value]

\* mutant: the mainnet cookie is tried before the one in the root
cookie_paths_mainnet_first == <<"mainnet/.cookie", ".cookie">>

\* The cookie paths, in the order of the loop.
cookie_paths == <<".cookie", "mainnet/.cookie">>

NoAuth == [user |-> <<>>, password |-> <<>>, port |-> 0]

InitA ==
    /\ a_files \in [{".cookie", "mainnet/.cookie"} -> CookieFiles]
                     \X ConfFiles
    /\ a_pc = "port"
    /\ a_port = 0
    /\ a_k = 1
    /\ a_src = "none"
    /\ a_auth = NoAuth

\* let port = read_rpc_port(data_dir).unwrap_or(8332);
A_ReadPort ==
    /\ a_pc = "port"
    /\ a_port' = IF read_rpc_port(a_files[2]) < 0 THEN 8332
                                                  ELSE read_rpc_port(a_files[2])
    /\ a_pc' = "cookie"
    /\ UNCHANGED <<a_files, a_k, a_src, a_auth>>
    /\ UNCHANGED notA

\* One turn of the loop over the cookie paths.
A_Cookie ==
    /\ a_pc = "cookie"
    /\ LET file == a_files[1][cookie_paths[a_k]]
           cut == split_once(trim(file.text), ":")
       IN  IF file.exists /\ cut.some
              THEN /\ a_auth' = [user |-> cut.before, password |-> cut.after,
                                 port |-> a_port]
                   /\ a_src' = cookie_paths[a_k]
                   /\ a_pc' = "done"
                   /\ UNCHANGED a_k
              ELSE /\ a_k' = a_k + 1
                   /\ a_pc' = IF a_k = Len(cookie_paths) THEN "static"
                                                         ELSE "cookie"
                   /\ UNCHANGED <<a_auth, a_src>>
    /\ UNCHANGED <<a_files, a_port>>
    /\ UNCHANGED notA

\* read_static_credentials(data_dir).unwrap_or_else(fallback).
A_Static ==
    /\ a_pc = "static"
    /\ LET c == read_static_credentials(a_files[2])
       IN  IF c.some
              THEN /\ a_auth' = [user |-> c.user, password |-> c.password,
                                 port |-> a_port]
                   /\ a_src' = "bitcoin.conf"
              ELSE /\ a_auth' = [user |-> <<"bitcoin">>,
                                 password |-> <<"bitcoinrpc">>,
                                 port |-> a_port]
                   /\ a_src' = "fallback"
    /\ a_pc' = "done"
    /\ UNCHANGED <<a_files, a_port, a_k>>
    /\ UNCHANGED notA

AuthStep == A_ReadPort \/ A_Cookie \/ A_Static

\* No from_data_dir call under way.
IdleA ==
    /\ InitA
    /\ a_files = <<[p \in {".cookie", "mainnet/.cookie"} |-> NoFile], NoFile>>

\* ------------------------------------------------------------------------
\* rpc::call, get_blockchain_info and stop_bitcoind on one HTTP exchange
\* (SpecCall)
\* ------------------------------------------------------------------------

\* A serde_json::Value that is not an object: Null ("null"), a number
\* (PosInt "posint", NegInt "negint", Float "float"; a Float counts in
\* units of 0.00001), a String, a Bool; "missing" for an absent member.
Json(t, n, s, b) == [t |-> t, n |-> n, s |-> s, b |-> b]

Missing == Json("missing", 0, "", FALSE)

InfoKeys == {"blocks", "headers", "verificationprogress", "chain",
             "initialblockdownload"}

\* A value with members: an object, or a value indexed like one.
Object(t, blocks, headers, progress, chain, ibd) ==
    [t |-> t,
     members |-> [k \in InfoKeys |->
                    CASE k = "blocks" -> blocks
                      [] k = "headers" -> headers
                      [] k = "verificationprogress" -> progress
                      [] k = "chain" -> chain
                      [] k = "initialblockdownload" -> ibd]]

NoValue == Object("missing", Missing, Missing, Missing, Missing, Missing)

\* The values of the "result" member in the model.
ResultValues ==
    {NoValue,
     Object("null", Missing, Missing, Missing, Missing, Missing),
     Object("string", Missing, Missing, Missing, Missing, Missing),
     Object("object", Missing, Missing, Missing, Missing, Missing),
     Object("object", Json("posint", 2, "", FALSE), Json("posint", 2, "", FALSE),
            Json("float", 100000, "", FALSE), Json("string", 0, "main", FALSE),
            Json("bool", 0, "", FALSE)),
     Object("object", Json("posint", 1, "", FALSE), Json("posint", 2, "", FALSE),
            Json("float", 50000, "", FALSE), Json("string", 0, "main", FALSE),
            Json("bool", 0, "", TRUE)),
     Object("object", Missing, Missing,
            Json("posint", 1, "", FALSE), Json("string", 0, "main", FALSE),
            Json("bool", 0, "", FALSE)),
     Object("object", Json("string", 0, "2", FALSE), Json("negint", -1, "", FALSE),
            Json("string", 0, "1.0", FALSE), Json("posint", 1, "", FALSE),
            Json("string", 0, "false", FALSE)),
     Object("object", Json("float", 200000, "", FALSE), Json("null", 0, "", FALSE),
            Json("bool", 0, "", TRUE), Json("null", 0, "", FALSE),
            Json("posint", 0, "", FALSE))}

\* The values of the "error" member in the model.
ErrorValues ==
    {NoValue,
     Object("null", Missing, Missing, Missing, Missing, Missing),
     Object("object", Missing, Missing, Missing, Missing, Missing)}

\* What the HTTP exchange of one call produces, with the body's members; a
\* body that is not an RpcResponse has none.
HttpExchanges ==
    {h \in [sent : BOOLEAN, status : {200, 401, 500}, parses : BOOLEAN,
            error : ErrorValues, result : ResultValues] :
        /\ ~h.sent => (h.status = 200 /\ ~h.parses)
        /\ ~h.parses => (h.error = NoValue /\ h.result = NoValue)}

\* serde: RpcResponse { result: Option<Value>, error: Option<Value> }; an
\* absent and a null member both give None.
rpc_response(h) ==
    [sent |-> h.sent, status |-> h.status, parses |-> h.parses,
     error |-> h.error.t \notin {"missing", "null"},
     result |-> h.result.t \notin {"missing", "null"}]

\* What rpc::call returns: the outcome, and the payload it carries.
call_returns(h) ==
    [kind |-> call(rpc_response(h)),
     value |-> CASE call(rpc_response(h)) = "RpcError" -> h.error
                 [] call(rpc_response(h)) = "Ok" -> h.result
                 [] OTHER -> NoValue]

\* Value::as_u64: Some for a PosInt only; -1 for None.
as_u64(v) == IF v.t = "posint" THEN v.n ELSE -1

\* Value::as_f64: Some for every number; -1 for None.
as_f64(v) ==
    CASE v.t = "float" -> v.n
      [] v.t \in {"posint", "negint"} -> v.n * 100000
      [] OTHER -> -1

NoInfo ==
    [ok |-> FALSE,
     info |-> [blocks |-> 0, headers |-> 0, verification_progress |-> 0,
               chain |-> "", initial_block_download |-> FALSE]]

\* mutant: a member that is missing or of the wrong type fails the call
get_blockchain_info_strict(out) ==
    IF out.kind # "Ok"
          \/ \E k \in {"blocks", "headers"} : as_u64(out.value.members[k]) < 0
          \/ out.value.members["verificationprogress"].t # "float"
          \/ out.value.members["chain"].t # "string"
          \/ out.value.members["initialblockdownload"].t # "bool"
    THEN NoInfo
    ELSE [ok |-> TRUE,
          info |-> [blocks |-> out.value.members["blocks"].n,
                    headers |-> out.value.members["headers"].n,
                    verification_progress |->
                        out.value.members["verificationprogress"].n,
                    chain |-> out.value.members["chain"].s,
                    initial_block_download |->
                        out.value.members["initialblockdownload"].b]]

\* rpc::get_blockchain_info on what call returned.
get_blockchain_info(out) ==
    IF out.kind # "Ok" THEN NoInfo
    ELSE LET v == out.value.members
         IN  [ok |-> TRUE,
              info |->
                [blocks |-> IF as_u64(v["blocks"]) < 0 THEN 0
                            ELSE as_u64(v["blocks"]),
                 headers |-> IF as_u64(v["headers"]) < 0 THEN 0
                             ELSE as_u64(v["headers"]),
                 verification_progress |->
                     IF v["verificationprogress"].t
                           \notin {"float", "posint", "negint"} THEN 0
                     ELSE as_f64(v["verificationprogress"]),
                 chain |-> IF v["chain"].t = "string" THEN v["chain"].s
                           ELSE "",
                 initial_block_download |->
                     IF v["initialblockdownload"].t = "bool"
                        THEN v["initialblockdownload"].b ELSE TRUE]]

InitC ==
    /\ c_method \in {"getblockchaininfo", "stop"}
    /\ c_http \in HttpExchanges
    /\ c_pc = "call"
    /\ c_out = [kind |-> "none", value |-> NoValue]
    /\ c_info = NoInfo

\* call(auth, method, params).await
C_Call ==
    /\ c_pc = "call"
    /\ c_out' = call_returns(c_http)
    /\ c_pc' = "called"
    /\ UNCHANGED <<c_method, c_http, c_info>>
    /\ UNCHANGED notC

\* get_blockchain_info: `?` on the call, then the BlockchainInfo.
C_GetBlockchainInfo ==
    /\ c_pc = "called"
    /\ c_method = "getblockchaininfo"
    /\ c_info' = get_blockchain_info(c_out)
    /\ c_pc' = "done"
    /\ UNCHANGED <<c_method, c_http, c_out>>
    /\ UNCHANGED notC

\* stop_bitcoind: `?` on the call, then Ok(()).
C_StopBitcoind ==
    /\ c_pc = "called"
    /\ c_method = "stop"
    /\ c_info' = [ok |-> stop_bitcoind(rpc_response(c_http)) = "Ok",
                  info |-> NoInfo.info]
    /\ c_pc' = "done"
    /\ UNCHANGED <<c_method, c_http, c_out>>
    /\ UNCHANGED notC

CallStep == C_Call \/ C_GetBlockchainInfo \/ C_StopBitcoind

\* No RPC call under way.
IdleC ==
    /\ InitC
    /\ c_method = "stop"
    /\ c_http = [sent |-> FALSE, status |-> 200, parses |-> FALSE,
                 error |-> NoValue, result |-> NoValue]

\* ------------------------------------------------------------------------
\* spawn_reader_thread (process_manager.rs): the stdout and the stderr
\* reader of one child (SpecReader)
\* ------------------------------------------------------------------------

\* Lines one stream carries in the model.
MaxStream == 2

\* What BufReader::lines() yields, read by read, while data is left: "ok"
\* for a line, "bad" for a line that is not valid UTF-8 (Err, the bytes of
\* the line consumed), and as the last item "ioerr" for a failing read.
StreamContents ==
    {s \in UNION {[1..n -> {"ok", "bad", "ioerr"}] : n \in 0..(MaxStream + 1)} :
        /\ \A i \in 1..Len(s) : s[i] = "ioerr" => i = Len(s)
        /\ Cardinality({i \in 1..Len(s) : s[i] # "ioerr"}) <= MaxStream}

InitD ==
    /\ d_stream \in [Readers -> StreamContents]
    /\ d_pos = [r \in Readers |-> 0]
    /\ d_open = TRUE
    /\ d_pc = [r \in Readers |-> "reading"]
    /\ d_queue = new_queue
    /\ d_log = <<>>

\* The loop body: `Ok(l) => push_line(&q, l)`.
reader_pushes(item) == item = "ok"

\* The loop body: `Err(_) => break`.
reader_breaks(item) == item \in {"bad", "ioerr"}

\* One turn of a reader's `for line in BufReader::new(pipe).lines()`.
D_Read(r) ==
    /\ d_pc[r] = "reading"
    /\ d_pos[r] < Len(d_stream[r])
    /\ d_pos' = [d_pos EXCEPT ![r] = @ + 1]
    /\ LET item == d_stream[r][d_pos[r] + 1]
       IN  /\ IF reader_pushes(item)
                 THEN /\ d_queue' = push_line(d_queue, <<r, d_pos[r] + 1>>)
                      /\ d_log' = Append(d_log, <<r, d_pos[r] + 1>>)
                 ELSE UNCHANGED <<d_queue, d_log>>
           /\ d_pc' = IF reader_breaks(item) THEN [d_pc EXCEPT ![r] = "ended"]
                                             ELSE d_pc
    /\ UNCHANGED <<d_stream, d_open>>
    /\ UNCHANGED notD

\* lines() yields None: the pipe is empty and every write end is closed.
D_Eof(r) ==
    /\ d_pc[r] = "reading"
    /\ d_pos[r] = Len(d_stream[r])
    /\ ~d_open
    /\ d_pc' = [d_pc EXCEPT ![r] = "ended"]
    /\ UNCHANGED <<d_stream, d_pos, d_open, d_queue, d_log>>
    /\ UNCHANGED notD

\* The child exits: both write ends close; what it wrote stays readable.
D_ChildExit ==
    /\ d_open
    /\ d_open' = FALSE
    /\ UNCHANGED <<d_stream, d_pos, d_pc, d_queue, d_log>>
    /\ UNCHANGED notD

ReaderStep ==
    \/ \E r \in Readers : D_Read(r)
    \/ \E r \in Readers : D_Eof(r)
    \/ D_ChildExit

\* No reader threads.
IdleD ==
    /\ InitD
    /\ d_stream = [r \in Readers |-> <<>>]

\* ------------------------------------------------------------------------
\* rpc::ensure_bitcoin_conf, called repeatedly on one data directory
\* (SpecConf)
\* ------------------------------------------------------------------------

\* Calls of ensure_bitcoin_conf in one behaviour.
MaxEnsure == 2

\* What the file system answers to one call that finds no bitcoin.conf:
\* all goes well, create_dir_all fails, fs::write cannot create the file,
\* or it creates the file and fails to write into it.
FsAnswers == {"ok", "mkdir fails", "create fails", "write fails"}

\* mutant: the file is written whether or not it exists
conf_written_always(file, fs) ==
    CASE fs = "ok" -> File(ConfText("generated"))
      [] fs = "write fails" -> File(<<>>)
      [] OTHER -> file

\* bitcoin.conf after ensure_bitcoin_conf.
conf_written(file, fs) ==
    IF file.exists THEN file
    ELSE CASE fs = "ok" -> File(ConfText("generated"))
           [] fs = "write fails" -> File(<<>>)
           [] OTHER -> file

\* The Result of ensure_bitcoin_conf.
conf_result(file, fs) ==
    IF file.exists \/ fs = "ok" THEN "Ok" ELSE "Err"

InitE ==
    /\ e_conf \in ConfFiles
    /\ e_fs \in [1..MaxEnsure -> FsAnswers]
    /\ e_hist = <<e_conf>>
    /\ e_ret = <<>>

\* One call of ensure_bitcoin_conf(data_dir).
E_EnsureBitcoinConf ==
    /\ Len(e_ret) < MaxEnsure
    /\ e_conf' = conf_written(e_conf, e_fs[Len(e_ret) + 1])
    /\ e_hist' = Append(e_hist, e_conf')
    /\ e_ret' = Append(e_ret, conf_result(e_conf, e_fs[Len(e_ret) + 1]))
    /\ UNCHANGED e_fs
    /\ UNCHANGED notE

ConfStep == E_EnsureBitcoinConf

\* No ensure_bitcoin_conf call.
IdleE ==
    /\ InitE
    /\ e_conf = CHOOSE f \in ConfFiles : ~f.exists
    /\ e_fs = [i \in 1..MaxEnsure |-> "ok"]

\* No update under way, nothing to download.
IdleU ==
    /\ InitU
    /\ ~u_tree.downloads
    /\ ~u_tree.bitforge
    /\ u_dstdir

\* No launch_* call under way.
IdleL ==
    /\ InitL
    /\ l_in = [kind |-> "btc", binaries_path |-> <<"ssd", "Binaries">>,
               data_dir |-> <<"ssd", "BitcoinChain">>,
               db_dir |-> <<"ssd", "ElectrsDB">>,
               env |-> [exists |-> TRUE, mkdir |-> TRUE, spawn |-> TRUE]]
    /\ l_queue = new_queue

\* App::new, with no shutdown worker started: the worker's group is at
\* rest (its node is taken as one that obeys).
Init ==
    /\ InitQ /\ InitS /\ s_mode = "obeys" /\ InitH /\ IdleL /\ InitR /\ IdleU
    /\ IdleV /\ IdleA /\ IdleC /\ IdleD /\ IdleE

\* The state in which ShutdownBoth has just spawned the node's worker,
\* for a node that obeys stop requests or one that ignores them.
InitShutdown ==
    /\ InitQ /\ InitS /\ InitH /\ IdleL /\ InitR /\ IdleU
    /\ IdleV /\ IdleA /\ IdleC /\ IdleD /\ IdleE

\* The state in which a launch handler calls launch_*.
InitLaunch ==
    /\ InitQ /\ InitS /\ s_mode = "obeys" /\ InitH /\ InitL /\ InitR /\ IdleU
    /\ IdleV /\ IdleA /\ IdleC /\ IdleD /\ IdleE

\* The state in which the user presses the update button.
InitUpdate ==
    /\ InitQ /\ InitS /\ s_mode = "obeys" /\ InitH /\ IdleL /\ InitR /\ InitU
    /\ IdleV /\ IdleA /\ IdleC /\ IdleD /\ IdleE

\* The state in which find_latest_version is called.
InitVersion ==
    /\ InitQ /\ InitS /\ s_mode = "obeys" /\ InitH /\ IdleL /\ InitR /\ IdleU
    /\ InitV /\ IdleA /\ IdleC /\ IdleD /\ IdleE

\* The state in which RpcAuth::from_data_dir is called.
InitAuth ==
    /\ InitQ /\ InitS /\ s_mode = "obeys" /\ InitH /\ IdleL /\ InitR /\ IdleU
    /\ IdleV /\ InitA /\ IdleC /\ IdleD /\ IdleE

\* The state in which get_blockchain_info or stop_bitcoind is called.
InitCall ==
    /\ InitQ /\ InitS /\ s_mode = "obeys" /\ InitH /\ IdleL /\ InitR /\ IdleU
    /\ IdleV /\ IdleA /\ InitC /\ IdleD /\ IdleE

\* The state in which spawn_reader_thread has started both readers.
InitReader ==
    /\ InitQ /\ InitS /\ s_mode = "obeys" /\ InitH /\ IdleL /\ InitR /\ IdleU
    /\ IdleV /\ IdleA /\ IdleC /\ InitD /\ IdleE

\* The state in which ensure_bitcoin_conf is called.
InitConf ==
    /\ InitQ /\ InitS /\ s_mode = "obeys" /\ InitH /\ IdleL /\ InitR /\ IdleU
    /\ IdleV /\ IdleA /\ IdleC /\ IdleD /\ InitE

SpecQueue == Init /\ [][QueueStep]_vars

SpecShutdown == InitShutdown /\ [][ShutdownStep]_vars

\* The scheduler runs the worker thread whenever it can take a step, and a
\* node that obeys stop requests does exit.
FairShutdown ==
    SpecShutdown /\ WF_vars(S_Worker) /\ WF_vars(S_ChildExit)

SpecLaunch == InitLaunch /\ [][LaunchStep]_vars

SpecRpc == Init /\ [][RpcStep]_vars

SpecUpdate == InitUpdate /\ [][UpdateStep]_vars

SpecOverlap == InitUpdate /\ [][OverlapStep]_vars

SpecVersion == InitVersion /\ [][VersionStep]_vars

SpecAuth == InitAuth /\ [][AuthStep]_vars

SpecCall == InitCall /\ [][CallStep]_vars

SpecReader == InitReader /\ [][ReaderStep]_vars

SpecConf == InitConf /\ [][ConfStep]_vars

Spec == Init /\ [][Next]_vars

\* ------------------------------------------------------------------------
\* Properties of the OutputQueue (checked under SpecQueue)
\* ------------------------------------------------------------------------

\* C1: in every reachable state, whatever the interleaving of pushes by the
\* two readers and the host with drains, the queue holds at most CAP lines.
C1_LengthWithinCap == Len(q_queue) <= CAP

\* C2: once more than CAP lines have been pushed with no drain in between,
\* the queue holds exactly the CAP most recent of them, in push order.
C2_KeepsMostRecentCap ==
    Len(q_hist) > CAP => q_queue = LastN(q_hist, CAP)

\* Every line pushed so far, as <<producer, n>>.
Pushed == {l \in Producers \X (1..MaxPush) : l[2] <= q_next[l[1]]}

\* Each pushed line is in exactly one place: delivered once, still queued
\* once, or discarded at the threshold.
ExactlyOnce ==
    LET all == q_delivered \o q_queue IN
    /\ Cardinality(Range(all)) = Len(all)
    /\ Range(all) \cap q_dropped = {}
    /\ Range(all) \cup q_dropped = Pushed

\* Lines of one producer are delivered in the order it pushed them.
StreamOrder ==
    \A i, j \in 1..Len(q_delivered) :
        (i < j /\ q_delivered[i][1] = q_delivered[j][1])
            => q_delivered[i][2] < q_delivered[j][2]

\* A step that hands lines to the consumer takes the whole queue, in queue
\* order, appends it to the display buffer and leaves the queue empty.
DrainsWholeQueue ==
    (q_delivered' # q_delivered \/ q_lines' # q_lines) =>
        /\ q_queue' = <<>>
        /\ q_delivered' = q_delivered \o q_queue
        /\ q_lines' = LastN(q_lines \o q_queue, MAX)

\* C3: a drain removes every queued line at once, in queue order, leaving
\* the queue empty; every line not discarded at the threshold is delivered
\* exactly once, and lines of one stream are delivered in push order.
C3_DrainExactlyOnceInOrder ==
    /\ [](ExactlyOnce /\ StreamOrder)
    /\ [][DrainsWholeQueue]_vars

\* C3 witness: all lines were pushed, some were discarded at the threshold,
\* and lines of both readers have been delivered by drains that emptied the
\* queue.
C3_Witness ==
    /\ q_dropped # {}
    /\ q_queue = <<>>
    /\ \A p \in Producers : q_next[p] = MaxPush
    /\ \A r \in Readers : \E i \in 1..Len(q_delivered) : q_delivered[i][1] = r

\* ------------------------------------------------------------------------
\* Properties of terminate and of the node-shutdown worker (checked under
\* SpecShutdown, the liveness ones under FairShutdown)
\* ------------------------------------------------------------------------

\* terminate was invoked and has returned to the worker.
TermReturned == s_t0 # -1 /\ s_pc \in {"t_ret", "push", "done"}

\* C4 as stated: terminate, once invoked, always returns, the forced kill
\* failing included.
C4_TerminateAlwaysReturns == (s_t0 # -1) ~> TermReturned

\* C4: when terminate returns the child has exited and been reaped; it
\* returns whenever the child exits, by itself or by the forced kill; when
\* the forced kill fails on a child that never exits, it stays blocked in
\* wait().
C4_TerminateReturnsOnceChildExits ==
    /\ [](TermReturned => s_child = "reaped")
    /\ (s_t0 # -1) ~>
          (TermReturned \/ (s_killRes = "failed" /\ s_mode = "ignores"))
    /\ []((s_killRes = "failed" /\ s_mode = "ignores") => s_pc = "t_wait")

\* C4 witness: terminate has returned after a forced kill that reported
\* failure, the child having exited later and been reaped by wait().
C4_Witness ==
    TermReturned /\ s_killRes = "failed" /\ s_child = "reaped"

\* C5: the forced kill is sent no earlier than the 10 s deadline and less
\* than one (overrun) poll interval after it; once the deadline has passed
\* terminate polls and sleeps no more; a child seen exited at a poll is
\* never sent the forced kill.
C5_ForcedKillTiming ==
    /\ s_killAt # -1 =>
          /\ s_t0 + TermDeadline <= s_killAt
          /\ s_killAt < s_t0 + TermDeadline + TermPoll + MaxJitter
    /\ (s_t0 # -1 /\ s_now >= s_t0 + TermDeadline)
          => s_pc \notin {"t_poll", "t_sleep"}
    /\ s_seen = "term" => s_killAt = -1

\* C5 witness: a child that ignores SIGTERM was sent the forced kill one
\* poll interval after the deadline.
C5_Witness ==
    /\ s_mode = "ignores"
    /\ s_killRes = "ok"
    /\ s_killAt = s_t0 + TermDeadline + TermPoll

\* C8 as stated: the fallback to terminate is taken only when the stop
\* call failed transport-wise.
C8_FallbackOnlyOnTransportFailure ==
    (s_via = "fallback" /\ s_rpc # "NoRuntime") => s_rpc = "TransportError"

\* C8: the fallback to terminate is taken exactly when the stop call did
\* not succeed, whatever the failure (transport, 401, unparsable body,
\* JSON-RPC error, null result, no runtime); after a successful stop call
\* terminate is invoked only by the 60 s timeout.
C8_FallbackOnAnyFailure ==
    /\ (s_via = "fallback") = (s_rpc \notin {"pending", "Ok"})
    /\ (s_rpc = "Ok" /\ s_t0 # -1) => s_via = "timeout"
    /\ (s_via = "fallback" /\ s_pc # "t_term") => s_termAt = 0

\* C8 witness: the node answered the stop call with a JSON-RPC error and
\* was sent SIGTERM as fallback.
C8_Witness ==
    s_via = "fallback" /\ s_rpc = "RpcError" /\ s_termAt # -1

C6_NoSignalToReapedProcess ==
    \A sig \in signals : sig[3] # "reaped"

\* C7: within one ShutdownBoth, as long as the indexer's thread has not
\* sent its termination signal, the node's worker has made no stop request
\* (it is still before its RPC call).
C7_IndexerSignalledFirst ==
    \A b, e \in Pids :
        (/\ procs[b].kind = "btc"
         /\ procs[e].kind = "els"
         /\ procs[b].sd # 0
         /\ procs[b].sd = procs[e].sd
         /\ procs[e].pc = "t_term")
            => procs[b].pc = "rpc"

\* The host handles LaunchElectrs while the node is not marked running.
LaunchElectrsWithoutNode ==
    budget' = budget - 1 /\ last' = "LaunchElectrs" /\ ~bitcoin_running

\* C10: LaunchElectrs while the node is not marked running sets an overlay
\* message (the precondition failure, or "already running" when the
\* indexer's own flag is still set), spawns no process, and leaves the
\* indexer's handle, flags and queue unchanged.
C10_LaunchElectrsNeedsNode ==
    [][LaunchElectrsWithoutNode =>
        /\ overlay_message' \in
              {"Bitcoin must be running before starting Electrs.",
               "Electrs is already running."}
        /\ ~electrs_running =>
              overlay_message' =
                  "Bitcoin must be running before starting Electrs."
        /\ UNCHANGED <<procs, electrs_handle, electrs_running,
                       electrs_synced, electrs_queue>>]_vars

\* C10 witness: the node was launched and is no longer marked running, and
\* the last command, LaunchElectrs, was refused with the precondition
\* message.
C10_Witness ==
    /\ last = "LaunchElectrs"
    /\ ~bitcoin_running
    /\ \E p \in Pids : procs[p].kind = "btc"
    /\ overlay_message = "Bitcoin must be running before starting Electrs."

\* The host handles a Launch message whose launch_* call fails.
LaunchFails(msg) ==
    /\ budget' = budget - 1
    /\ last' = msg
    /\ launched' \in {"NotFound", "CreateDirFailed", "SpawnFailed"}

\* C11: a launch fails when the executable is absent or the spawn fails;
\* a failed launch creates no child, leaves the daemon's running flag false
\* and its handle unchanged, sets the overlay message and appends a
\* "Launch error" line to that daemon's queue.
C11_FailedLaunchLeavesNoChild ==
    /\ [](\A env \in LaunchEnvs :
            (~env.exists \/ ~env.spawn) => launch_result(env) # "Ok")
    /\ [][LaunchFails("LaunchBitcoin") =>
            /\ procs' = procs
            /\ ~bitcoin_running /\ ~bitcoin_running'
            /\ bitcoin_handle' = bitcoin_handle
            /\ overlay_message' = "Failed to launch Bitcoin"
            /\ bitcoin_queue' # <<>>
            /\ bitcoin_queue'[Len(bitcoin_queue')] = "Launch error"]_vars
    /\ [][LaunchFails("LaunchElectrs") =>
            /\ procs' = procs
            /\ ~electrs_running /\ ~electrs_running'
            /\ electrs_handle' = electrs_handle
            /\ overlay_message' = "Failed to launch Electrs"
            /\ electrs_queue' # <<>>
            /\ electrs_queue'[Len(electrs_queue')] = "Launch error"]_vars

\* C11 witness: the node runs, and the indexer's launch has just failed at
\* the spawn, after its command line was queued.
C11_Witness ==
    /\ last = "LaunchElectrs"
    /\ launched = "SpawnFailed"
    /\ bitcoin_running
    /\ ~electrs_running
    /\ electrs_handle = 0
    /\ overlay_message = "Failed to launch Electrs"

\* ------------------------------------------------------------------------
\* Properties of launch_* (checked under SpecLaunch)
\* ------------------------------------------------------------------------

\* A queued or logged line is the command line / a line of the child.
IsCmdLine(line) == line.tag = "cmd"

IsChildLine(line) == line.tag = "out"

\* In sequence `lines`, no line of the child comes before a command line.
CmdLineFirst(lines) ==
    \A i, j \in 1..Len(lines) :
        (IsChildLine(lines[i]) /\ IsCmdLine(lines[j])) => j < i

\* C12: the command line is pushed before the child is spawned, so every
\* line of the child comes after it, in the order of pushes and in the
\* order of delivery; and its words are exactly the program and the
\* arguments given to spawn.
C12_CommandLineBeforeOutput ==
    /\ \A i \in 1..Len(l_log) :
          IsChildLine(l_log[i]) =>
              \E j \in 1..(i - 1) : IsCmdLine(l_log[j])
    /\ CmdLineFirst(l_lines \o l_queue)
    /\ l_spawned.called =>
          /\ Cardinality({j \in 1..Len(l_log) : IsCmdLine(l_log[j])}) = 1
          /\ \E j \in 1..Len(l_log) :
                /\ IsCmdLine(l_log[j])
                /\ l_log[j].words =
                      << <<"$">>, l_spawned.program>> \o l_spawned.args

\* C12 witness: an indexer was spawned from a binaries path that is not
\* valid UTF-8, all its output was pushed and drained.
C12_Witness ==
    /\ l_spawned.called
    /\ l_in.kind = "els"
    /\ l_in.binaries_path = <<"ssd", "Bin<FF>">>
    /\ Len(l_log) = 1 + 2 * MaxOut
    /\ l_queue = <<>>

\* C13 as stated: apart from the user's commands, the indexer-synced flag
\* is cleared only when the indexer's process has exited.
C13_SyncedClearedOnlyByIndexerExit ==
    [][(electrs_synced /\ ~electrs_synced' /\ budget' = budget) =>
          (electrs_handle # 0 /\ procs[electrs_handle].st # "alive")]_vars

\* C13: the indexer-synced flag is set only by a tick that drains a
\* matching line, and cleared only by a tick that finds the indexer or the
\* node exited, by a shutdown command, or by a launch of the indexer; no
\* other line, tick, RPC result or thread step clears it.
C13_SyncedClearedOnlyByExitOrCommand ==
    /\ [][(electrs_synced /\ ~electrs_synced') =>
            \/ /\ budget' = budget - 1
               /\ last' \in {"ShutdownBoth", "ShutdownElectrsOnly"}
            \/ /\ budget' = budget - 1
               /\ last' = "LaunchElectrs"
               /\ ~electrs_running /\ electrs_running'
            \/ /\ budget' = budget
               /\ electrs_running /\ ~electrs_running'
            \/ /\ budget' = budget
               /\ bitcoin_running /\ ~bitcoin_running']_vars
    /\ [][(~electrs_synced /\ electrs_synced') =>
            /\ electrs_queue' = <<>> \/ electrs_queue' = <<"electrs has stopped.">>
            /\ \E i \in 1..Len(electrs_queue) :
                  is_electrs_synced_line(electrs_queue[i])]_vars

\* C13 witness: the indexer runs, a matching line of it is on display, and
\* the flag is clear again because a tick found the node exited.
C13_Witness ==
    /\ electrs_running
    /\ electrs_handle # 0
    /\ procs[electrs_handle].st = "alive"
    /\ ~bitcoin_running
    /\ bitcoin_handle # 0
    /\ ~electrs_synced
    /\ \E i \in 1..Len(electrs_lines) :
          is_electrs_synced_line(electrs_lines[i])

\* ------------------------------------------------------------------------
\* Properties of the RPC polling (checked under SpecRpc)
\* ------------------------------------------------------------------------

\* C14: right after a result is processed, an Ok snapshot leaves the
\* node-synced flag equal to headers > 0 and blocks >= headers - 1 and
\* verification_progress > 0.9999 on that snapshot and the height equal to
\* its blocks, whatever the flag was before; an error leaves both as they
\* were; headers - 1 never goes below zero.
C14_SyncedIsFormulaOfSnapshot ==
    /\ r_pc = "received" /\ r_result.ok =>
         /\ r_bitcoin_synced =
              (/\ r_result.info.headers > 0
               /\ r_result.info.blocks >= r_result.info.headers - 1
               /\ r_result.info.verification_progress > ProgressThreshold)
         /\ r_block_height = r_result.info.blocks
         /\ r_result.info.headers = 0 => ~r_bitcoin_synced
    /\ r_pc = "received" /\ ~r_result.ok =>
         /\ r_bitcoin_synced = r_before.synced
         /\ r_block_height = r_before.height
    /\ \A h \in 0..MaxHeaders : saturating_sub(h, 1) \in 0..MaxHeaders

\* C14 witness: the flag was set, and a snapshot with headers = 0, full
\* progress and blocks = 0 has just cleared it.
C14_Witness ==
    /\ r_pc = "received"
    /\ r_result.ok
    /\ r_result.info.headers = 0
    /\ r_result.info.verification_progress = 100000
    /\ r_before.synced
    /\ ~r_bitcoin_synced

\* ------------------------------------------------------------------------
\* Properties of the binary update, one update at a time (SpecUpdate)
\* ------------------------------------------------------------------------

C17_FailedCopyDoesNotAbortPass ==
    \A r \in Runs : \A comp \in u_run[r].passes :
        LET run == u_run[r]
            folder == IF comp = "btc" THEN run.btc_folder ELSE run.etr_folder
            present == Range(names_of(comp)) \cap u_tree.files[folder]
        IN  (run.pc = "shown" /\ run.failed \cap present # {}) =>
               (present \ run.failed) \subseteq run.replaced

\* C18: when the node's pass has failed and the indexer has a version
\* folder, the indexer's pass has run all the same, the result is Updated,
\* and its message holds the node's error text followed by the indexer's
\* outcome: the names it replaced, or its own error text.
C18_NodeFailureKeepsIndexerPass ==
    \A r \in Runs : \A e \in u_run[r].errs :
        LET run == u_run[r]
            msg == run.result.msg
            etr == run.replaced \cap Range(ElectrsNames)
        IN  (run.result.tag # "None" /\ e[1] = "btc") =>
              /\ run.result.tag = "Updated"
              /\ Len(msg) >= 1
              /\ msg[1].kind = "error"
              /\ msg[1].comp = "Bitcoin"
              /\ msg[1].text = e[2]
              /\ run.etr_folder # "None" =>
                    /\ "etr" \in run.passes
                    /\ etr # {} =>
                          /\ Len(msg) = 2
                          /\ msg[2].kind = "copied"
                          /\ msg[2].comp = "Electrs"
                          /\ msg[2].folder = run.etr_folder
                          /\ Range(msg[2].names) = etr
                    /\ (\E x \in run.errs : x[1] = "etr") =>
                          /\ Len(msg) = 2
                          /\ msg[2].kind = "error"
                          /\ msg[2].comp = "Electrs"

\* C18 witness: the node's pass failed, the indexer's binary was replaced
\* afterwards, and the overlay shows both.
C18_Witness ==
    \E r \in Runs :
        /\ u_run[r].pc = "shown"
        /\ \E e \in u_run[r].errs : e[1] = "btc"
        /\ "electrs" \in u_run[r].replaced
        /\ u_dst["electrs"].st = "new"
        /\ Len(u_overlay.detail) = 2

\* C19 as stated: a run returns Updated only when it replaced at least one
\* binary, and NothingToUpdate when its passes replaced nothing.
C19_UpdatedOnlyWhenReplaced ==
    \A r \in Runs :
        /\ u_run[r].result.tag = "Updated" => u_run[r].replaced # {}
        /\ (u_run[r].result.tag # "None" /\ u_run[r].passes # {}
              /\ u_run[r].replaced = {}) =>
              u_run[r].result.tag = "NothingToUpdate"

\* C20: the outcome follows the priority order: without the download
\* folder BitForgeFound with the application's path if it is installed,
\* else BitForgeNotFound; else without the binaries sub-folder
\* BinariesSubfolderMissing; else without a versioned folder of either
\* component NothingToUpdate; a copy pass runs in none of these cases, and
\* while no run got further no directory or file of the destination is
\* created or changed.
C20_OutcomePriority ==
    LET none_versioned ==
            \A e \in u_tree.entries :
                ~(/\ e.is_dir
                  /\ Len(e.spelled) >= 3
                  /\ e.spelled[1] \in {"bitcoin", "electrs"}
                  /\ e.spelled[2] = "-"
                  /\ e.spelled[3] \in {"0", "1", "2"})
        early == ~u_tree.downloads \/ ~u_tree.binaries \/ none_versioned
    IN
    /\ \A r \in Runs :
        LET res == u_run[r].result IN
        /\ res.tag # "None" =>
            /\ ~u_tree.downloads =>
                 res = IF u_tree.bitforge
                          THEN Result("BitForgeFound", <<>>,
                                      "/Applications/BitForge.app")
                          ELSE Result("BitForgeNotFound", <<>>, "")
            /\ u_tree.downloads /\ ~u_tree.binaries =>
                 res.tag = "BinariesSubfolderMissing"
            /\ u_tree.downloads /\ u_tree.binaries /\ none_versioned =>
                 res.tag = "NothingToUpdate"
            /\ ~early => res.tag \in {"Updated", "NothingToUpdate"}
        /\ early => /\ u_run[r].passes = {}
                    /\ ~u_run[r].touched
                    /\ u_run[r].pc \notin {"mkdir", "name", "copying", "stat",
                                           "chmod", "rename", "pass_end",
                                           "return"}
    /\ early => /\ \A n \in AllNames :
                      /\ u_tmp[n] = Absent
                      /\ u_dst[n] = IF u_dstdir THEN OldBinary ELSE Absent
                /\ u_fail = MaxFailures

\* C20 witness: the download folder exists without its binaries
\* sub-folder while BitForge.app is installed, and the run has reported
\* BinariesSubfolderMissing.
C20_Witness ==
    \E r \in Runs :
        /\ u_tree.downloads /\ u_tree.bitforge /\ ~u_tree.binaries
        /\ u_run[r].pc = "shown"
        /\ u_run[r].result.tag = "BinariesSubfolderMissing"
        /\ u_overlay.bitforge_path = ""

\* The names of `names` that are in `present`, in the order of `names`.
RECURSIVE InOrder(_, _)
InOrder(names, present) ==
    IF names = <<>> THEN <<>>
    ELSE (IF Head(names) \in present THEN <<Head(names)>> ELSE <<>>)
            \o InOrder(Tail(names), present)

\* C21: when a pass of copy_binaries ends without error, names missing
\* from the source folder were skipped, the returned list is the names
\* whose final file this pass replaced, in the order of the names
\* argument, and each of them is now a complete copy; when that list is
\* empty, no final or temporary file of the pass's names was touched.
C21_CopiedListIsWhatWasReplaced ==
    \A r \in Runs :
        LET run == u_run[r]
            names == names_of(run.comp)
            present == u_tree.files[cur_folder(run)]
        IN  (run.pc = "pass_end" /\ run.err = "") =>
              /\ run.copied = InOrder(names, present)
              /\ Range(run.copied) = run.replaced \cap Range(names)
              /\ \A n \in Range(run.copied) : u_dst[n].st = "new"
              /\ run.copied = <<>> =>
                    \A n \in Range(names) :
                        /\ u_tmp[n] = Absent
                        /\ u_dst[n] \in {Absent, OldBinary}

\* C21 witness: a node pass has ended without error having replaced
\* bitcoind and bitcoin-cli and skipped the two names the folder lacks.
C21_Witness ==
    \E r \in Runs :
        /\ u_run[r].pc = "pass_end"
        /\ u_run[r].err = ""
        /\ u_run[r].comp = "btc"
        /\ u_run[r].copied = <<"bitcoind", "bitcoin-cli">>
        /\ u_dst["bitcoin-tx"].st # "new"

\* ------------------------------------------------------------------------
\* Properties of overlapping updates (checked under SpecOverlap)
\* ------------------------------------------------------------------------

\* C16 as stated: at every moment the file at each final path is absent,
\* the complete previous binary, or a complete copy of the source binary.
C16_NoPartialBinaryAtFinalPath ==
    \A n \in AllNames : u_dst[n].st \in {"absent", "old", "new"}

\* ------------------------------------------------------------------------
\* Properties of version selection (checked under SpecVersion)
\* ------------------------------------------------------------------------

\* The version each version string of the model stands for, the empty
\* tuple for a string that is no version.
ExpectedVersion(str) ==
    CASE str = <<"2", "6", ".", "0">> -> <<26, 0, 0>>
      [] str = <<"2", "7", ".", "0">> -> <<27, 0, 0>>
      [] str = <<"2", "7", ".", "1">> -> <<27, 1, 0>>
      [] str = <<"2", "7", ".", "0", ".", "0">> -> <<27, 0, 0>>
      [] str = <<"2", "7", ".", "x">> -> <<27, 0, 0>>
      [] str = <<"2", "8", ".", "0">> -> <<28, 0, 0>>
      [] str = <<"1">> -> <<1, 0, 0>>
      [] str = <<"0", ".", "1", "0", ".", "5">> -> <<0, 10, 5>>
      [] OTHER -> <<>>

\* The directories of the listing named `<prefix>-<version>` with a
\* version.
Candidates ==
    {e \in Range(v_dir) :
        /\ e.is_dir
        /\ Len(e.spelled) >= 2
        /\ e.spelled[1] = v_prefix
        /\ e.spelled[2] = "-"
        /\ ExpectedVersion(SubSeq(e.spelled, 3, Len(e.spelled))) # <<>>}

VersionOf(e) == ExpectedVersion(SubSeq(e.spelled, 3, Len(e.spelled)))

LexGe(a, b) ==
    \/ a[1] > b[1]
    \/ a[1] = b[1] /\ a[2] > b[2]
    \/ a[1] = b[1] /\ a[2] = b[2] /\ a[3] >= b[3]

\* C22: find_latest_version returns a candidate whose version is at least
\* every candidate's under (major, minor, patch) order, the same one for
\* every enumeration order when one candidate is strictly highest; files,
\* names without the `<prefix>-` form and names whose version does not
\* parse are no candidates; without a candidate, or when the folder cannot
\* be read, it returns None.
C22_ReturnsAHighestVersion ==
    v_pc = "done" =>
        /\ (~v_readable \/ Candidates = {}) => v_ret = "None"
        /\ (v_readable /\ Candidates # {}) =>
              /\ \E e \in Candidates :
                    /\ e.name = v_ret
                    /\ \A c \in Candidates : LexGe(VersionOf(e), VersionOf(c))
              /\ \A e \in Candidates :
                    (\A c \in Candidates \ {e} :
                        ~LexGe(VersionOf(c), VersionOf(e))) => v_ret = e.name
        /\ v_readable => v_ret \in find_latest_version(Range(v_dir), v_prefix)

\* C22 witness: bitcoin-26.0, bitcoin-27.1, bitcoin-27.0 listed in that
\* order, and bitcoin-27.1 returned for prefix bitcoin.
C22_Witness ==
    /\ v_pc = "done"
    /\ v_prefix = "bitcoin"
    /\ Len(v_dir) = 3
    /\ v_dir[1].name = "bitcoin-26.0"
    /\ v_dir[2].name = "bitcoin-27.1"
    /\ v_dir[3].name = "bitcoin-27.0"
    /\ v_ret = "bitcoin-27.1"

\* C23: parse_semver gives (major, minor, patch) with a missing minor or
\* patch counted as 0, and no version when the major part is empty or not
\* a non-negative integer: "27.0" gives (27,0,0), "0.10.5" gives (0,10,5),
\* "1" gives (1,0,0), and "", ".5", "abc" and "-1" give none.
C23_ParseSemver ==
    v_parsed.called =>
        /\ v_parsed.out = ExpectedVersion(v_parsed.input)
        /\ v_parsed.input = <<"2", "7", ".", "0">> =>
              v_parsed.out = <<27, 0, 0>>
        /\ v_parsed.input = <<"0", ".", "1", "0", ".", "5">> =>
              v_parsed.out = <<0, 10, 5>>
        /\ v_parsed.input = <<"1">> => v_parsed.out = <<1, 0, 0>>
        /\ v_parsed.input \in {<<>>, <<".", "5">>, <<"a", "b", "c">>,
                               <<"-", "1">>} => v_parsed.out = <<>>

\* C23 witness: "0.10.5" has been parsed to (0, 10, 5).
C23_Witness ==
    /\ v_parsed.called
    /\ v_parsed.input = <<"0", ".", "1", "0", ".", "5">>
    /\ v_parsed.out = <<0, 10, 5>>

\* ------------------------------------------------------------------------
\* Properties of RpcAuth::from_data_dir (checked under SpecAuth)
\* ------------------------------------------------------------------------

\* A cookie file that exists and holds a ':'.
UsableCookie(file) == file.exists /\ ":" \in Range(file.text)

\* bitcoin.conf has a line that starts, after blanks only, with `key`.
HasKey(conf, key) ==
    /\ conf.exists
    /\ \E i \in 1..Len(conf.text) :
          /\ conf.text[i] = key
          /\ \E j \in 1..i :
                /\ j = 1 \/ conf.text[j - 1] = "\n"
                /\ \A m \in j..(i - 1) : conf.text[m] = " "

\* The first source, in the order .cookie, mainnet/.cookie, bitcoin.conf,
\* fallback, that is present and usable.
FirstUsableSource ==
    IF UsableCookie(a_files[1][".cookie"]) THEN ".cookie"
    ELSE IF UsableCookie(a_files[1]["mainnet/.cookie"]) THEN "mainnet/.cookie"
    ELSE IF HasKey(a_files[2], "rpcuser=") /\ HasKey(a_files[2], "rpcpassword=")
       THEN "bitcoin.conf"
    ELSE "fallback"

\* C24: the credentials of the returned RpcAuth come from the first of
\* <dataDir>/.cookie, <dataDir>/mainnet/.cookie, the rpcuser=/rpcpassword=
\* lines of bitcoin.conf and the static fallback that is present and usable;
\* a cookie without ':' and a configuration lacking either key are skipped.
C24_CredentialSourceOrder ==
    a_pc = "done" =>
        /\ a_src = FirstUsableSource
        /\ (a_src = ".cookie"
               /\ a_files[1][".cookie"] =
                     File(<<"__cookie__", ":", "s3cr3t", "\n">>))
              => (a_auth.user = <<"__cookie__">>
                    /\ a_auth.password = <<"s3cr3t">>)
        /\ (a_src = "mainnet/.cookie"
               /\ a_files[1]["mainnet/.cookie"] =
                     File(<<" ", "u", ":", "a", ":", "b", " ">>))
              => (a_auth.user = <<"u">> /\ a_auth.password = <<"a", ":", "b">>)
        /\ (a_src = "bitcoin.conf" /\ a_files[2] = File(ConfText("full")))
              => (a_auth.user = <<"alice">> /\ a_auth.password = <<"pw">>)
        /\ a_src = "fallback"
              => (a_auth.user = <<"bitcoin">>
                    /\ a_auth.password = <<"bitcoinrpc">>)

\* Both cookies are there and neither has a ':'; bitcoin.conf has both keys
\* and its credentials are the ones returned.
C24_Witness ==
    /\ a_pc = "done"
    /\ a_src = "bitcoin.conf"
    /\ a_files[1][".cookie"] = File(<<"garbage", "\n">>)
    /\ a_files[1]["mainnet/.cookie"] = File(<<>>)
    /\ a_auth.user = <<"alice">>

\* The port that each bitcoin.conf of the model asks for.
ExpectedPort(name) ==
    CASE name = "generated" -> 8332
      [] name = "full" -> 18443
      [] name = "user only" -> 8332
      [] name = "port 65536" -> 8332
      [] name = "bad first" -> 8332
      [] name = "spaced" -> 8333

\* C25: the port of the returned RpcAuth is the value of the rpcport= line
\* of bitcoin.conf, and 8332 when the file or the line is absent or the
\* value does not parse as a port, whatever the source of the credentials.
C25_PortFromConfOrDefault ==
    a_pc = "done" =>
        /\ ~a_files[2].exists => a_auth.port = 8332
        /\ \A name \in ConfNames :
              a_files[2] = File(ConfText(name))
                 => a_auth.port = ExpectedPort(name)

\* The credentials come from the cookie, the port from bitcoin.conf.
C25_Witness ==
    /\ a_pc = "done"
    /\ a_src = ".cookie"
    /\ a_files[2] = File(ConfText("full"))
    /\ a_auth.port = 18443

\* ------------------------------------------------------------------------
\* Properties of rpc::call and get_blockchain_info (checked under SpecCall)
\* ------------------------------------------------------------------------

\* The body carries a non-null error / a non-null result.
HasError == c_http.error.t \notin {"missing", "null"}

HasResult == c_http.result.t \notin {"missing", "null"}

\* C26 as stated: call ends in one of five ways -- no response gives
\* TransportError, status 401 gives AuthenticationFailed, a non-null error
\* gives RpcError even with a result present, neither error nor result
\* gives EmptyResult, and otherwise the result value is returned.
C26_FiveOutcomes ==
    c_pc # "call" =>
        c_out.kind = IF ~c_http.sent THEN "TransportError"
                     ELSE IF c_http.status = 401 THEN "AuthenticationFailed"
                     ELSE IF HasError THEN "RpcError"
                     ELSE IF ~HasResult THEN "EmptyResult"
                     ELSE "Ok"

\* C26, amended: call ends in exactly one of six ways, decided in this
\* order -- no response gives TransportError; status 401 gives
\* AuthenticationFailed whatever the body; a body that does not parse as a
\* JSON-RPC response gives a parse failure; a non-null error gives RpcError
\* carrying the error, even with a result present; neither error nor result
\* gives EmptyResult; otherwise the result value is returned.
C26_SixOutcomes ==
    c_pc # "call" =>
        /\ c_out.kind = IF ~c_http.sent THEN "TransportError"
                        ELSE IF c_http.status = 401 THEN "AuthenticationFailed"
                        ELSE IF ~c_http.parses THEN "ParseError"
                        ELSE IF HasError THEN "RpcError"
                        ELSE IF ~HasResult THEN "EmptyResult"
                        ELSE "Ok"
        /\ c_out.kind = "RpcError" => c_out.value = c_http.error
        /\ c_out.kind = "Ok" => c_out.value = c_http.result

\* A response with status 500 whose body is not a JSON-RPC response: call
\* has returned the parse failure.
C26_Witness ==
    /\ c_pc = "called"
    /\ c_http.sent /\ c_http.status = 500 /\ ~c_http.parses
    /\ c_out.kind = "ParseError"

\* C27: when call succeeds, get_blockchain_info succeeds whatever the
\* members of the result: blocks and headers that are missing or not
\* non-negative integers are 0, a verification progress that is not a
\* number is 0, a chain that is not a string is "", an
\* initial_block_download that is not a boolean is true; and a result
\* without the two heights is not synced by the host's formula.
C27_InfoDefaults ==
    (c_pc = "done" /\ c_method = "getblockchaininfo" /\ c_out.kind = "Ok") =>
        LET m == c_http.result.members
            info == c_info.info
        IN  /\ c_info.ok
            /\ info.blocks = IF m["blocks"].t = "posint" THEN m["blocks"].n
                              ELSE 0
            /\ info.headers = IF m["headers"].t = "posint" THEN m["headers"].n
                               ELSE 0
            /\ m["verificationprogress"].t \notin {"posint", "negint", "float"}
                  => info.verification_progress = 0
            /\ m["verificationprogress"].t = "float"
                  => info.verification_progress = m["verificationprogress"].n
            /\ info.chain = IF m["chain"].t = "string" THEN m["chain"].s ELSE ""
            /\ info.initial_block_download =
                  IF m["initialblockdownload"].t = "bool"
                     THEN m["initialblockdownload"].b ELSE TRUE
            /\ (m["blocks"].t = "missing" /\ m["headers"].t = "missing")
                  => ~node_synced(info)

\* A result without heights and with a complete verification progress has
\* given a snapshot with both heights 0, which is not synced.
C27_Witness ==
    /\ c_pc = "done"
    /\ c_info.ok
    /\ c_http.result.members["blocks"].t = "missing"
    /\ c_http.result.members["verificationprogress"].t = "posint"
    /\ c_info.info.verification_progress = 100000
    /\ c_info.info.headers = 0
    /\ ~node_synced(c_info.info)

\* ------------------------------------------------------------------------
\* RPC failures (checked under SpecRpc)
\* ------------------------------------------------------------------------

\* C28: once BlockchainInfoReceived has handled a failed chain-info poll,
\* the failure is shown as the overlay message and a diagnostic line about
\* it is the newest line of the node's queue.
C28_PollFailureIsSurfaced ==
    (r_pc = "received" /\ ~r_result.ok) =>
        /\ r_overlay_message # "None"
        /\ r_bitcoin_queue # <<>>
        /\ r_bitcoin_queue[Len(r_bitcoin_queue)]
              \notin {"$ bitcoind", "bitcoind has stopped."}

\* ------------------------------------------------------------------------
\* The host loop while a poll is pending (checked under Spec)
\* ------------------------------------------------------------------------

\* C29: while a getblockchaininfo poll is pending, the host can run
\* OutputTick and every command handler; and the poll's result reaches the
\* host state only through a later BlockchainInfoReceived message for a
\* pending poll, never within the step that started it.
C29_HostRunsWhilePollPending ==
    /\ [](rpc_inflight > 0 =>
             /\ ENABLED OutputTick
             /\ budget > 0 =>
                   /\ ENABLED LaunchBitcoin
                   /\ ENABLED LaunchElectrs
                   /\ ENABLED ShutdownBoth
                   /\ ENABLED ShutdownElectrsOnly)
    /\ [][/\ rpc_inflight' > rpc_inflight =>
                (block_height' = block_height
                   /\ bitcoin_synced' = bitcoin_synced)
          /\ (bitcoin_synced' /\ ~bitcoin_synced) =>
                (rpc_inflight > 0 /\ rpc_inflight' = rpc_inflight - 1)]_vars

\* A poll is pending and the node is no longer marked running: a tick or a
\* shutdown command was handled after the poll was started.
C29_Witness ==
    /\ rpc_inflight > 0
    /\ ~bitcoin_running
    /\ bitcoin_lines # <<>>

\* ------------------------------------------------------------------------
\* The completion line of a background termination (checked under
\* FairShutdown)
\* ------------------------------------------------------------------------

\* The worker's completion line is in the node's queue.
StoppedLine == \E i \in 1..Len(s_queue) : s_queue[i] = "bitcoind stopped."

\* C30 as stated: the shutdown handler has returned with the process still
\* alive, the worker it started eventually appends the completion line,
\* and the line is appended only after the process has exited.
C30_CompletionLineAlwaysAppended ==
    /\ [](StoppedLine => Exited(s_child))
    /\ (s_pc = "rpc") ~> StoppedLine

\* C30, amended: the completion line is appended only after the process
\* has exited and been reaped, and it is appended eventually whenever the
\* process exits -- on the stop request, on a signal, or by itself;
\* when the forced kill fails on a process that never exits, the worker
\* stays blocked in wait() and the line is never appended.
C30_CompletionLineOnceChildExits ==
    /\ [](s_pc \in {"push", "done"} => s_child = "reaped")
    /\ [](StoppedLine => s_pc = "done")
    /\ (s_pc = "rpc") ~>
          (StoppedLine \/ (s_killRes = "failed" /\ s_mode = "ignores"))

\* The stop request succeeded, the node exited within the 60 s window, and
\* the worker has appended the line without having called terminate.
C30_Witness ==
    /\ StoppedLine
    /\ s_rpc = "Ok"
    /\ s_t0 = -1
    /\ s_child = "reaped"

\* ------------------------------------------------------------------------
\* Properties of the reader threads (checked under SpecReader)
\* ------------------------------------------------------------------------

\* C31: a reader loop that has ended has pushed every valid line its
\* stream carried, and a reader whose stream is empty and open does not
\* stop the other one from reading.
C31_EveryLinePushed ==
    /\ \A r \in Readers :
          d_pc[r] = "ended" =>
             \A i \in 1..Len(d_stream[r]) :
                d_stream[r][i] = "ok" =>
                   \E k \in 1..Len(d_log) : d_log[k] = <<r, i>>
    /\ \A r, o \in Readers :
          (r # o /\ d_pc[o] = "reading" /\ d_pos[o] = Len(d_stream[o])
             /\ d_pc[r] = "reading" /\ d_pos[r] < Len(d_stream[r]))
          => ENABLED D_Read(r)

\* ------------------------------------------------------------------------
\* Properties of ensure_bitcoin_conf (checked under SpecConf)
\* ------------------------------------------------------------------------

\* C32: a call that finds bitcoin.conf leaves it as it is; the file
\* changes only in a call that found none, and is then the generated
\* config when the file system allows; and a second call with the same
\* answers of the file system changes nothing the first has not done.
C32_WrittenOnlyWhenAbsent ==
    /\ \A k \in 1..Len(e_ret) :
          /\ e_hist[k].exists => (e_hist[k + 1] = e_hist[k] /\ e_ret[k] = "Ok")
          /\ (~e_hist[k].exists /\ e_fs[k] = "ok")
                => (e_hist[k + 1] = File(ConfText("generated"))
                      /\ e_ret[k] = "Ok")
    /\ (Len(e_ret) = 2 /\ e_fs[1] = e_fs[2]) => e_hist[3] = e_hist[2]

\* Two calls on a data directory that holds the user's own config have
\* left it as it was.
C32_Witness ==
    /\ Len(e_ret) = 2
    /\ e_hist[1] = File(ConfText("full"))
    /\ e_conf = File(ConfText("full"))

C34_FirstOfEqualVersionsKept ==
    /\ [](v_pc = "done" /\ v_readable /\ Candidates # {} =>
            LET top(e) == /\ e \in Candidates
                          /\ \A c \in Candidates :
                                LexGe(VersionOf(e), VersionOf(c))
                first == CHOOSE i \in DOMAIN v_dir :
                            /\ top(v_dir[i])
                            /\ \A j \in 1..(i - 1) : ~top(v_dir[j])
            IN  /\ v_ret = v_dir[first].name
                /\ Cardinality({e \in Candidates : top(e)}) = 1 =>
                      \A e \in Candidates : top(e) => v_ret = e.name)
    /\ [][v_best.some /\ v_best' # v_best =>
            /\ v_best'.ver # v_best.ver
            /\ LexGe(v_best'.ver, v_best.ver)]_vars

\* C34 witness: bitcoin-27.0.0, bitcoin-27.x and bitcoin-27.0, all of
\* version (27,0,0), listed in that order, and the first one returned.
C34_Witness ==
    /\ v_pc = "done"
    /\ v_prefix = "bitcoin"
    /\ Len(v_dir) = 3
    /\ v_dir[1].name = "bitcoin-27.0.0"
    /\ v_dir[2].name = "bitcoin-27.x"
    /\ v_dir[3].name = "bitcoin-27.0"
    /\ v_best.ver = <<27, 0, 0>>
    /\ v_ret = "bitcoin-27.0.0"

\* The number of entries of q that are `line`.
CountOf(q, line) == Cardinality({i \in 1..Len(q) : q[i] = line})

\* C35: an OutputTick that finds a daemon marked running whose process has
\* exited marks it not running, clears its synced flag (and sets the block
\* height to 0 for the node) and leaves exactly one "<daemon> has stopped."
\* line in its queue; no step queues such a line for a daemon that is
\* marked not running, so the line is queued once per exit and the next one
\* needs a launch first.
C35_StoppedLineOncePerExit ==
    /\ [](/\ CountOf(bitcoin_queue, "bitcoind has stopped.") <= 1
          /\ CountOf(electrs_queue, "electrs has stopped.") <= 1)
    /\ [][/\ (/\ bitcoin_running
              /\ bitcoin_handle # 0 => Exited(procs[bitcoin_handle].st)
              /\ OutputTick) =>
                    /\ ~bitcoin_running'
                    /\ ~bitcoin_synced'
                    /\ block_height' = 0
                    /\ bitcoin_queue' = <<"bitcoind has stopped.">>
          /\ (/\ electrs_running
              /\ electrs_handle # 0 => Exited(procs[electrs_handle].st)
              /\ OutputTick) =>
                    /\ ~electrs_running'
                    /\ ~electrs_synced'
                    /\ electrs_queue' = <<"electrs has stopped.">>
          /\ CountOf(bitcoin_queue', "bitcoind has stopped.")
                > CountOf(bitcoin_queue, "bitcoind has stopped.") =>
                    bitcoin_running /\ ~bitcoin_running'
          /\ CountOf(electrs_queue', "electrs has stopped.")
                > CountOf(electrs_queue, "electrs has stopped.") =>
                    electrs_running /\ ~electrs_running']_vars

\* C35 witness: the node exited on its own, one tick queued the line, a
\* later tick moved it to the terminal buffer and queued nothing; the
\* buffer holds the line once and the node is still marked not running.
C35_Witness ==
    /\ ~bitcoin_running
    /\ bitcoin_handle # 0
    /\ procs[bitcoin_handle].st = "reaped"
    /\ procs[bitcoin_handle].pc = "host"
    /\ bitcoin_queue = <<>>
    /\ CountOf(bitcoin_lines, "bitcoind has stopped.") = 1
    /\ block_height = 0
    /\ ~bitcoin_synced

\* C36 as stated: at any time at most one node process spawned by the
\* supervisor is alive, and at most one indexer process.
C36_AtMostOneLiveProcessEach ==
    /\ Cardinality(Alive("btc")) <= 1
    /\ Cardinality(Alive("els")) <= 1

\* C37 as stated: a chain-info result handled while the node is marked not
\* running changes neither the node-synced flag nor the block height, and
\* the node-synced flag is never true while the node is marked not running.
C37_LateResultIgnored ==
    /\ [](bitcoin_synced => bitcoin_running)
    /\ [][(~bitcoin_running /\ rpc_inflight' < rpc_inflight) =>
            /\ bitcoin_synced' = bitcoin_synced
            /\ block_height' = block_height]_vars

\* C38 as stated: whenever the indexer is marked not running its synced
\* flag is false.
C38_IndexerSyncedImpliesRunning ==
    electrs_synced => electrs_running

\* C39: a daemon's running flag being true implies that its process handle
\* is present: the handle is one of the processes spawned, of that daemon's
\* kind, and no shutdown thread owns it.
C39_RunningImpliesHandle ==
    /\ bitcoin_running =>
          /\ bitcoin_handle \in Pids
          /\ procs[bitcoin_handle].kind = "btc"
          /\ procs[bitcoin_handle].pc = "host"
    /\ electrs_running =>
          /\ electrs_handle \in Pids
          /\ procs[electrs_handle].kind = "els"
          /\ procs[electrs_handle].pc = "host"

\* C39 witness: the node is marked running with its handle after a shutdown
\* had moved the previous handle into a thread that is still at work.
C39_Witness ==
    /\ bitcoin_running
    /\ bitcoin_handle \in Pids
    /\ procs[bitcoin_handle].pc = "host"
    /\ \E p \in Pids : procs[p].kind = "btc" /\ procs[p].pc # "host"

\* C40: a launch request for a daemon that is already marked running spawns
\* no process and leaves that daemon's handle, running and synced flags and
\* output queue unchanged (and every other field of the host but the
\* overlay); it sets the overlay to "<Daemon> is already running.".
C40_LaunchWhileRunningOnlySetsOverlay ==
    [][LET request(cmd) == budget' = budget - 1 /\ last' = cmd
           host_kept ==
               /\ procs' = procs
               /\ UNCHANGED <<bitcoin_handle, bitcoin_running, bitcoin_synced,
                              bitcoin_queue, bitcoin_lines, block_height>>
               /\ UNCHANGED <<electrs_handle, electrs_running, electrs_synced,
                              electrs_queue, electrs_lines>>
               /\ UNCHANGED <<bitcoin_conf, rpc_inflight, signals>>
       IN  /\ (request("LaunchBitcoin") /\ bitcoin_running) =>
                /\ host_kept
                /\ overlay_message' = "Bitcoin is already running."
           /\ (request("LaunchElectrs") /\ electrs_running) =>
                /\ host_kept
                /\ overlay_message' = "Electrs is already running."]_vars

\* C40 witness: the indexer is marked running, the node is not any more,
\* and a LaunchElectrs request has been refused with the already-running
\* overlay.
C40_Witness ==
    /\ last = "LaunchElectrs"
    /\ launched = "Refused"
    /\ electrs_running
    /\ ~bitcoin_running
    /\ electrs_handle \in Pids
    /\ overlay_message = "Electrs is already running."

====
